---- MODULE Spec2Model ----
(***************************************************************************)
(* rlox: scanner -> single-pass bytecode compiler -> stack VM.             *)
(*                                                                         *)
(* Source text is a sequence of one-character strings.  Every Rust method  *)
(* `fn f(&mut self, ...)` of Scanner / Compiler / Chunk / RunLengthEncoded *)
(* is an operator f(self, ...) giving the receiver after the call.  The    *)
(* session (Vm::interpret called repeatedly on one Vm) is the state        *)
(* machine: Interpret starts a call, CompileStep is one turn of the        *)
(* declaration loop of Compiler::compile, RunStep is one turn of the       *)
(* dispatch loop of Vm::run.                                               *)
(*                                                                         *)
(* A Rust panic (index out of bounds, usize underflow, expect/unwrap on    *)
(* None, panic!) aborts the process: pc = "panic", no further step.        *)
(* The cfg(debug_assertions) tracing blocks print only and are left out.   *)
(* f64 numbers are exact rationals <<num, den>> (den > 0), with den = 0    *)
(* for the non-finite results of a division by zero; the sign of zero is   *)
(* not kept.                                                               *)
(***************************************************************************)
EXTENDS Integers, Sequences, FiniteSets, TLC

---------------------------------------------------------------------------
(* Characters *)

NUL == "NUL"    \* '\0', what Scanner::peek gives at the end of the buffer

Digits == {"0", "1", "2", "3", "4", "5", "6", "7", "8", "9"}

Letters ==
  {"a", "b", "c", "d", "e", "f", "g", "h", "i", "j", "k", "l", "m",
   "n", "o", "p", "q", "r", "s", "t", "u", "v", "w", "x", "y", "z",
   "A", "B", "C", "D", "E", "F", "G", "H", "I", "J", "K", "L", "M",
   "N", "O", "P", "Q", "R", "S", "T", "U", "V", "W", "X", "Y", "Z"}

is_ascii_alphabetic(ch) == ch \in Letters

is_ascii_digit(ch) == ch \in Digits

is_ascii_alphanumeric(ch) == ch \in Letters \cup Digits

DigitVal(ch) ==
  CASE ch = "0" -> 0 [] ch = "1" -> 1 [] ch = "2" -> 2 [] ch = "3" -> 3
    [] ch = "4" -> 4 [] ch = "5" -> 5 [] ch = "6" -> 6 [] ch = "7" -> 7
    [] ch = "8" -> 8 [] ch = "9" -> 9

---------------------------------------------------------------------------
(* Scanner (scan.rs).  start/current are the 0-based offsets of the code;  *)
(* src[i] of the code is self.src[i + 1] here.                             *)

Token(kind, src, line) == [kind |-> kind, src |-> src, line |-> line]

\* Token::default()
DefaultToken == Token("Error", <<>>, 0)

\* what a call that panicked hands back (never seen by the program)
PanicToken == Token("Panic", <<>>, 0)

ScannerInit(src) == [start |-> 0, current |-> 0, line |-> 1, src |-> src]

is_at_end(s) == s.current = Len(s.src)

peek(s) == IF is_at_end(s) THEN NUL ELSE s.src[s.current + 1]

\* self.src[self.current + 1] is out of bounds when current is the last offset
peek_next_panics(s) == ~is_at_end(s) /\ s.current + 1 >= Len(s.src)

peek_next(s) == IF is_at_end(s) THEN NUL ELSE s.src[s.current + 2]

s_advance(s) == [s EXCEPT !.current = s.current + 1]

match_c(s, expected) ==
  IF is_at_end(s) THEN FALSE ELSE s.src[s.current + 1] = expected

Lexeme(s) == SubSeq(s.src, s.start + 1, s.current)

token(s, kind) == Token(kind, Lexeme(s), s.line)

\* the lexeme of an Error token is the message, held as a one-element sequence
error_token(s, msg) == Token("Error", <<msg>>, s.line)

RECURSIVE skip_comment(_)
skip_comment(s) ==
  IF peek(s) # "\n" /\ ~is_at_end(s) THEN skip_comment(s_advance(s)) ELSE s

\* gives [s, panic]
RECURSIVE skip_whitespace(_)
skip_whitespace(s) ==
  LET ch == peek(s) IN
  CASE ch \in {" ", "\r", "\t"} -> skip_whitespace(s_advance(s))
    [] ch = "\n" -> skip_whitespace(s_advance([s EXCEPT !.line = s.line + 1]))
    [] ch = "/" ->
         IF peek_next_panics(s) THEN [s |-> s, panic |-> TRUE]
         ELSE IF peek_next(s) = "/" THEN skip_whitespace(skip_comment(s))
         ELSE [s |-> s, panic |-> FALSE]
    [] OTHER -> [s |-> s, panic |-> FALSE]

RECURSIVE string_body(_)
string_body(s) ==
  IF peek(s) # "\"" /\ ~is_at_end(s)
  THEN string_body(s_advance(IF peek(s) = "\n"
                             THEN [s EXCEPT !.line = s.line + 1] ELSE s))
  ELSE s

\* Scanner::string, gives [s, tok]
s_string(s) ==
  LET closed(s2) == [s |-> s2, tok |-> token(s2, "String")]
      found(s1) ==
        IF is_at_end(s1)
        THEN [s |-> s1, tok |-> error_token(s1, "Unterminated string.")]
        ELSE closed(s_advance(s1))
  IN found(string_body(s))

RECURSIVE skip_digits(_)
skip_digits(s) ==
  IF is_ascii_digit(peek(s)) THEN skip_digits(s_advance(s)) ELSE s

\* Scanner::number, gives [s, tok]
s_number(s) ==
  LET done(s2) == [s |-> s2, tok |-> token(s2, "Number")]
      whole(s1) ==
        IF peek(s1) = "."
        THEN IF peek_next_panics(s1) THEN [s |-> s1, tok |-> PanicToken]
             ELSE IF is_ascii_digit(peek_next(s1))
             THEN done(skip_digits(s_advance(s1)))
             ELSE done(s1)
        ELSE done(s1)
  IN whole(skip_digits(s))

check_keyword(s, start, length, rest, kind) ==
  IF s.current - s.start = start + length
     /\ SubSeq(s.src, s.start + start + 1, s.start + start + length) = rest
  THEN kind ELSE "Identifier"

identifier(s) ==
  LET c0 == s.src[s.start + 1]
      long == s.current - s.start > 1
      c1 == s.src[s.start + 2]
  IN
  CASE c0 = "a" -> check_keyword(s, 1, 2, <<"n", "d">>, "And")
    [] c0 = "c" -> check_keyword(s, 1, 4, <<"l", "a", "s", "s">>, "Class")
    [] c0 = "e" -> check_keyword(s, 1, 3, <<"l", "s", "e">>, "Else")
    [] c0 = "i" -> check_keyword(s, 1, 1, <<"f">>, "If")
    [] c0 = "n" -> check_keyword(s, 1, 2, <<"i", "l">>, "Nil")
    [] c0 = "o" -> check_keyword(s, 1, 1, <<"r">>, "Or")
    [] c0 = "p" -> check_keyword(s, 1, 4, <<"r", "i", "n", "t">>, "Print")
    [] c0 = "r" -> check_keyword(s, 1, 5, <<"e", "t", "u", "r", "n">>, "Return")
    [] c0 = "s" -> check_keyword(s, 1, 4, <<"u", "p", "e", "r">>, "Super")
    [] c0 = "t" /\ long /\ c1 = "h" -> check_keyword(s, 2, 2, <<"i", "s">>, "This")
    [] c0 = "t" /\ long /\ c1 = "r" -> check_keyword(s, 2, 2, <<"u", "e">>, "True")
    [] c0 = "v" -> check_keyword(s, 1, 2, <<"a", "r">>, "Var")
    [] c0 = "w" -> check_keyword(s, 1, 4, <<"h", "i", "l", "e">>, "While")
    [] c0 = "f" /\ long /\ c1 = "a" -> check_keyword(s, 2, 3, <<"l", "s", "e">>, "False")
    [] c0 = "f" /\ long /\ c1 = "o" -> check_keyword(s, 2, 1, <<"r">>, "For")
    [] c0 = "f" /\ long /\ c1 = "u" -> check_keyword(s, 2, 1, <<"n">>, "Fun")
    [] OTHER -> "Identifier"

RECURSIVE skip_alnum(_)
skip_alnum(s) ==
  IF is_ascii_alphanumeric(peek(s)) THEN skip_alnum(s_advance(s)) ELSE s

\* the one- and two-character arm of scan_token's match; s is past the first char
punct(s, ch) ==
  LET one(s1, kind) == [s |-> s1, tok |-> token(s1, kind)]
      two(kind2, kind1) ==
        IF match_c(s, "=") THEN one(s_advance(s), kind2) ELSE one(s, kind1)
  IN
  CASE ch = "(" -> one(s, "LeftParen")
    [] ch = ")" -> one(s, "RightParen")
    [] ch = "{" -> one(s, "LeftBrace")
    [] ch = "}" -> one(s, "RightBrace")
    [] ch = ";" -> one(s, "Semicolon")
    [] ch = "," -> one(s, "Comma")
    [] ch = "." -> one(s, "Dot")
    [] ch = "-" -> one(s, "Minus")
    [] ch = "+" -> one(s, "Plus")
    [] ch = "/" -> one(s, "Slash")
    [] ch = "*" -> one(s, "Star")
    [] ch = NUL -> one(s, "Eof")
    [] ch = "!" -> two("BangEqual", "Bang")
    [] ch = "=" -> two("EqualEqual", "Equal")
    [] ch = "<" -> two("LessEqual", "Less")
    [] ch = ">" -> two("GreaterEqual", "Greater")
    [] ch = "\"" -> s_string(s)
    [] OTHER -> [s |-> s, tok |-> error_token(s, "Unexpected character.")]

\* Scanner::scan_token, gives [s, tok]; tok = PanicToken when the call panics
scan_token(s) ==
  LET ident(s3) == [s |-> s3, tok |-> token(s3, identifier(s3))]
      first(s1, ch) ==
        IF is_ascii_alphabetic(ch) \/ ch = "_"
        THEN ident(skip_alnum(s_advance(s1)))
        ELSE IF is_ascii_digit(ch) THEN s_number(s_advance(s1))
        ELSE punct(s_advance(s1), ch)
      started(s1) ==
        IF is_at_end(s1) THEN [s |-> s1, tok |-> token(s1, "Eof")]
        ELSE first(s1, s1.src[s1.current + 1])
      skipped(w) ==
        IF w.panic THEN [s |-> w.s, tok |-> PanicToken]
        ELSE started([w.s EXCEPT !.start = w.s.current])
  IN skipped(skip_whitespace(s))

---------------------------------------------------------------------------
(* Value (value.rs) *)

Abs(n) == IF n < 0 THEN -n ELSE n

Sign(n) == IF n < 0 THEN -1 ELSE IF n > 0 THEN 1 ELSE 0

RECURSIVE Gcd(_, _)
Gcd(a, b) == IF b = 0 THEN a ELSE Gcd(b, a % b)

\* the rational n/d in lowest terms with a positive denominator; d = 0 gives
\* the non-finite <<1, 0>> (inf), <<-1, 0>> (-inf), <<0, 0>> (NaN)
Rat(n, d) ==
  IF d = 0 THEN <<Sign(n), 0>>
  ELSE LET g == Gcd(Abs(n), Abs(d)) IN <<(Sign(d) * n) \div g, Abs(d) \div g>>

IsNaN(a) == a[2] = 0 /\ a[1] = 0

IsInf(a) == a[2] = 0 /\ a[1] # 0

NumNeg(a) == <<-a[1], a[2]>>

NumAdd(a, b) ==
  IF IsNaN(a) \/ IsNaN(b) THEN <<0, 0>>
  ELSE IF IsInf(a) THEN (IF IsInf(b) /\ b # a THEN <<0, 0>> ELSE a)
  ELSE IF IsInf(b) THEN b
  ELSE Rat(a[1] * b[2] + b[1] * a[2], a[2] * b[2])

NumSub(a, b) == NumAdd(a, NumNeg(b))

NumMul(a, b) ==
  IF IsNaN(a) \/ IsNaN(b) THEN <<0, 0>>
  ELSE IF IsInf(a) \/ IsInf(b)
  THEN <<Sign(a[1]) * Sign(b[1]), 0>>
  ELSE Rat(a[1] * b[1], a[2] * b[2])

NumDiv(a, b) ==
  IF IsNaN(a) \/ IsNaN(b) THEN <<0, 0>>
  ELSE IF IsInf(a) THEN (IF IsInf(b) THEN <<0, 0>>
                         ELSE <<a[1] * (IF b[1] < 0 THEN -1 ELSE 1), 0>>)
  ELSE IF IsInf(b) THEN <<0, 1>>
  ELSE Rat(a[1] * b[2], a[2] * b[1])

NumLess(a, b) ==
  IF IsNaN(a) \/ IsNaN(b) THEN FALSE
  ELSE IF IsInf(a) \/ IsInf(b)
  THEN a # b /\ (a = <<-1, 0>> \/ b = <<1, 0>>)
  ELSE a[1] * b[2] < b[1] * a[2]

NumGreater(a, b) == NumLess(b, a)

Bool(b) == [t |-> "Bool", v |-> b]

Number(q) == [t |-> "Number", v |-> q]

Str(chars) == [t |-> "Str", v |-> chars]

Nil == [t |-> "Nil", v |-> <<>>]

\* derived PartialEq: same variant and equal payloads (f64: NaN # NaN)
ValueEq(a, b) ==
  /\ a.t = b.t
  /\ a.v = b.v
  /\ ~(a.t = "Number" /\ IsNaN(a.v))

is_falsey(val) ==
  CASE val.t = "Bool" -> ~val.v
    [] val.t = "Nil" -> TRUE
    [] OTHER -> TRUE

is_number(val) == val.t = "Number"

is_str(val) == val.t = "Str"

\* str::parse::<f64> on a lexeme DIGITS or DIGITS.DIGITS
RECURSIVE DigitsValue(_)
DigitsValue(chars) ==
  IF chars = <<>> THEN 0
  ELSE 10 * DigitsValue(SubSeq(chars, 1, Len(chars) - 1))
       + DigitVal(chars[Len(chars)])

RECURSIVE Pow10(_)
Pow10(k) == IF k = 0 THEN 1 ELSE 10 * Pow10(k - 1)

ParseNumber(chars) ==
  LET dots == {i \in 1..Len(chars) : chars[i] = "."} IN
  IF dots = {} THEN Rat(DigitsValue(chars), 1)
  ELSE LET d == CHOOSE i \in dots : TRUE
           whole == SubSeq(chars, 1, d - 1)
           frac == SubSeq(chars, d + 1, Len(chars))
       IN Rat(DigitsValue(whole) * Pow10(Len(frac)) + DigitsValue(frac),
              Pow10(Len(frac)))

---------------------------------------------------------------------------
(* RunLengthEncoded (rle.rs): inner is the Vec<Run>, a Run is [len, data] *)

RleNew == <<>>

\* a push that leaves the last run as long as it was when the value repeats
rle_push_keeps_len(inner, value) ==
  IF inner # <<>> /\ value = inner[Len(inner)].data
  THEN inner
  ELSE Append(inner, [len |-> 1, data |-> value])

\* a push that opens a new run for every value
rle_push_new_run(inner, value) == Append(inner, [len |-> 1, data |-> value])

rle_push(inner, value) ==
  IF inner # <<>> /\ value = inner[Len(inner)].data
  THEN [inner EXCEPT ![Len(inner)].len = @ + 1]
  ELSE Append(inner, [len |-> 1, data |-> value])

\* RunLengthEncoded::get; index is 0-based; gives [some, val]
RECURSIVE rle_get_from(_, _, _, _)
rle_get_from(inner, k, last_index, index) ==
  IF k > Len(inner) THEN [some |-> FALSE, val |-> 0]
  ELSE LET next_index == last_index + inner[k].len IN
       IF index >= last_index /\ index < next_index
       THEN [some |-> TRUE, val |-> inner[k].data]
       ELSE rle_get_from(inner, k + 1, next_index, index)

rle_get(inner, index) == rle_get_from(inner, 1, 0, index)

\* RunLengthEncoded::get_mut and the write through the reference it returns:
\* the data of the run that holds the index; gives [some, inner]
RECURSIVE rle_set_from(_, _, _, _, _)
rle_set_from(inner, k, last_index, index, value) ==
  IF k > Len(inner) THEN [some |-> FALSE, inner |-> inner]
  ELSE LET next_index == last_index + inner[k].len IN
       IF index >= last_index /\ index < next_index
       THEN [some |-> TRUE, inner |-> [inner EXCEPT ![k].data = value]]
       ELSE rle_set_from(inner, k + 1, next_index, index, value)

\* `rle[index] = value` through IndexMut::index_mut; gives [panic, inner]
rle_index_mut(inner, index, value) ==
  [panic |-> ~rle_set_from(inner, 1, 0, index, value).some,
   inner |-> rle_set_from(inner, 1, 0, index, value).inner]

\* Index::index: the value, or the panic "Index {index} out of bounds"
rle_index(inner, index) ==
  [panic |-> ~rle_get(inner, index).some, val |-> rle_get(inner, index).val]

---------------------------------------------------------------------------
(* Chunk and Op (chunk.rs).  An Op is [op, arg]; arg is 0 for the variants *)
(* without an operand.  code[i] of the code is code[i + 1] here.           *)

Op(name, arg) == [op |-> name, arg |-> arg]

Op0(name) == [op |-> name, arg |-> 0]

ChunkInit == [code |-> <<>>, constants |-> <<>>, lines |-> RleNew]

\* an add_op that records a line only when it differs from the last one
add_op_new_lines_only(chunk, code, line) ==
  [chunk EXCEPT !.lines = rle_push_keeps_len(chunk.lines, line),
                !.code = Append(chunk.code, code)]

add_op(chunk, code, line) ==
  [chunk EXCEPT !.lines = rle_push(chunk.lines, line),
                !.code = Append(chunk.code, code)]

\* gives the chunk; the index returned by the code is Len(constants) - 1 after it
add_const(chunk, value) ==
  [chunk EXCEPT !.constants = Append(chunk.constants, value)]

---------------------------------------------------------------------------
(* Compiler (compile.rs).  c is the Compiler; diag is what error_at has    *)
(* written to stderr; abort is set once a call inside compile panicked.    *)

PrecNone == 0
PrecAssignment == 1
PrecOr == 2
PrecAnd == 3
PrecEquality == 4
PrecComparison == 5
PrecTerm == 6
PrecFactor == 7
PrecUnary == 8
PrecCall == 9
PrecPrimary == 10

\* Precedence::next
PrecNext(p) == IF p = PrecPrimary THEN PrecPrimary ELSE p + 1

\* the operand of the placeholder Op::JumpIfFalse(usize::MAX); every path of
\* if_statement overwrites it, so only its being no instruction index matters
UsizeMax == 2147483647

ParseRule(prefix, infix, precedence) ==
  [prefix |-> prefix, infix |-> infix, precedence |-> precedence]

\* impl From<TokenKind> for ParseRule
Rule(kind) ==
  CASE kind = "LeftParen" -> ParseRule("grouping", "none", PrecNone)
    [] kind = "Minus" -> ParseRule("unary", "binary", PrecTerm)
    [] kind = "Plus" -> ParseRule("none", "binary", PrecTerm)
    [] kind = "Slash" -> ParseRule("none", "binary", PrecFactor)
    [] kind = "Star" -> ParseRule("none", "binary", PrecFactor)
    [] kind = "Number" -> ParseRule("number", "none", PrecNone)
    [] kind \in {"True", "False", "Nil"} -> ParseRule("literal", "none", PrecNone)
    [] kind = "Bang" -> ParseRule("unary", "none", PrecNone)
    [] kind \in {"BangEqual", "EqualEqual"} -> ParseRule("none", "binary", PrecEquality)
    [] kind \in {"Greater", "GreaterEqual", "Less", "LessEqual"} ->
         ParseRule("none", "binary", PrecComparison)
    [] kind = "String" -> ParseRule("string", "none", PrecNone)
    [] kind = "Identifier" -> ParseRule("variable", "none", PrecNone)
    [] OTHER -> ParseRule("none", "none", PrecNone)

Local(name, depth, init) == [name |-> name, depth |-> depth, init |-> init]

\* the struct literal of Compiler::compile, before its first advance
CompilerInit(source) ==
  [scanner |-> ScannerInit(source),
   current |-> DefaultToken,
   previous |-> DefaultToken,
   had_error |-> FALSE,
   panic_mode |-> FALSE,
   chunk |-> ChunkInit,
   scope_depth |-> 0,
   locals |-> <<>>,
   diag |-> <<>>,
   abort |-> FALSE]

Panicked(c) == [c EXCEPT !.abort = TRUE,
                         !.previous = Token("Eof", <<>>, 0),
                         !.current = Token("Eof", <<>>, 0)]

\* Every call of a method that can reach itself again goes through Call, the
\* one recursive operator of the compiler: self_f(c) is the call self.f().
RECURSIVE Call(_, _, _)

self_advance(c) == Call("advance", c, 0)

self_parse_precedence(c, precedence) == Call("parse_precedence", c, precedence)

self_statement(c) == Call("statement", c, 0)

self_declaration(c) == Call("declaration", c, 0)

error_at(c, tok, message) ==
  IF c.panic_mode THEN c
  ELSE [c EXCEPT !.panic_mode = TRUE,
                 !.diag = Append(c.diag,
                                 [line |-> tok.line,
                                  at |-> IF tok.kind = "Eof" THEN <<"end">>
                                         ELSE IF tok.kind # "Error" THEN tok.src
                                         ELSE <<>>,
                                  msg |-> message]),
                 !.had_error = TRUE]

error_at_current(c, message) == error_at(c, c.current, message)

error(c, message) == error_at(c, c.previous, message)

\* an advance that drops Error tokens without a report
RECURSIVE advance_loop_silent(_)
advance_loop_silent(c) ==
  LET scanned(r) ==
        IF r.tok.kind = "Panic" THEN Panicked(c)
        ELSE IF r.tok.kind # "Error"
        THEN [c EXCEPT !.scanner = r.s, !.current = r.tok]
        ELSE advance_loop_silent([c EXCEPT !.scanner = r.s, !.current = r.tok])
  IN scanned(scan_token(c.scanner))

RECURSIVE advance_loop(_)
advance_loop(c) ==
  LET scanned(r) ==
        IF r.tok.kind = "Panic" THEN Panicked(c)
        ELSE IF r.tok.kind # "Error"
        THEN [c EXCEPT !.scanner = r.s, !.current = r.tok]
        ELSE advance_loop(error_at(
               [c EXCEPT !.scanner = r.s, !.current = r.tok], r.tok, r.tok.src))
  IN scanned(scan_token(c.scanner))

advance(c) ==
  IF c.abort THEN Panicked(c)
  ELSE advance_loop([c EXCEPT !.previous = c.current])

check(c, kind) == c.current.kind = kind

\* match_t returns check(c, kind) and leaves the compiler as given here
match_t(c, kind) == IF check(c, kind) THEN self_advance(c) ELSE c

consume(c, kind, message) ==
  IF c.current.kind = kind THEN self_advance(c) ELSE error_at_current(c, message)

emit(c, instruction) ==
  [c EXCEPT !.chunk = add_op(c.chunk, instruction, c.previous.line)]

emit2(c, i1, i2) == emit(emit(c, i1), i2)

\* returns Len(constants) - 1 of the chunk it leaves
emit_const(c, value) ==
  LET added(c1) == emit(c1, Op("Const", Len(c1.chunk.constants) - 1))
  IN added([c EXCEPT !.chunk = add_const(c.chunk, value)])

emit_return(c) ==
  [c EXCEPT !.chunk = add_op(c.chunk, Op0("Return"), c.previous.line)]

\* the body in src/ stops after the emit; the index it must return is the one
\* if_statement writes through: that of the instruction just emitted
emit_jump(c, instruction) ==
  LET emitted(c1) == [c |-> c1, loc |-> Len(c1.chunk.code) - 1]
  IN emitted(emit(c, instruction))

\* returns Len(constants) - 1 of the chunk it leaves
identifier_constant(c, tok) ==
  [c EXCEPT !.chunk = add_const(c.chunk, Str(tok.src))]

add_local(c, name) ==
  [c EXCEPT !.locals = Append(c.locals, Local(name, c.scope_depth, FALSE))]

\* the loop of declare_variable over locals.iter().rev(), from index k down
RECURSIVE declare_scan(_, _, _)
declare_scan(c, name, k) ==
  IF k = 0 \/ c.locals[k].depth < c.scope_depth THEN c
  ELSE declare_scan(
         IF name.src = c.locals[k].name.src
         THEN error(c, <<"Already a variable with the name ", name.src,
                         " in this scope.">>)
         ELSE c,
         name, k - 1)

\* a declare_variable that compares the name with the locals of every depth
RECURSIVE declare_scan_any_depth(_, _, _)
declare_scan_any_depth(c, name, k) ==
  IF k = 0 THEN c
  ELSE declare_scan_any_depth(
         IF name.src = c.locals[k].name.src
         THEN error(c, <<"Already a variable with the name ", name.src,
                         " in this scope.">>)
         ELSE c,
         name, k - 1)

declare_variable_any_depth(c) ==
  IF c.scope_depth = 0 THEN c
  ELSE add_local(declare_scan_any_depth(c, c.previous, Len(c.locals)), c.previous)

declare_variable(c) ==
  IF c.scope_depth = 0 THEN c
  ELSE add_local(declare_scan(c, c.previous, Len(c.locals)), c.previous)

\* gives [c, global]
parse_variable(c, message) ==
  LET global(c3) == [c |-> c3, global |-> Len(c3.chunk.constants) - 1]
      declared(c2) ==
        IF c2.scope_depth > 0
        THEN [c |-> IF c2.locals # <<>>
                    THEN [c2 EXCEPT !.locals[Len(c2.locals)].init = TRUE]
                    ELSE c2,
              global |-> 0]
        ELSE global(identifier_constant(c2, c2.previous))
  IN declared(declare_variable(consume(c, "Identifier", message)))

define_variable(c, global) ==
  IF c.scope_depth > 0 THEN c ELSE emit(c, Op("DefineGlobal", global))

\* the loop of resolve_local over locals.iter().rev(); gives [c, some, idx]
RECURSIVE resolve_scan(_, _, _)
resolve_scan(c, name, k) ==
  IF k = 0 THEN [c |-> c, some |-> FALSE, idx |-> 0]
  ELSE IF c.locals[k].name.src = name.src
  THEN [c |-> IF ~c.locals[k].init
              THEN error(c, <<"Can't read local variable in its own initializer.">>)
              ELSE c,
        some |-> TRUE, idx |-> k - 1]
  ELSE resolve_scan(c, name, k - 1)

\* a resolve_local that searches from the outermost local on
RECURSIVE resolve_scan_outermost(_, _, _)
resolve_scan_outermost(c, name, k) ==
  IF k > Len(c.locals) THEN [c |-> c, some |-> FALSE, idx |-> 0]
  ELSE IF c.locals[k].name.src = name.src
  THEN [c |-> c, some |-> TRUE, idx |-> k - 1]
  ELSE resolve_scan_outermost(c, name, k + 1)

resolve_local_outermost(c, name) == resolve_scan_outermost(c, name, 1)

resolve_local(c, name) == resolve_scan(c, name, Len(c.locals))

\* a begin_scope that leaves the depth as it is
begin_scope_keeps_depth(c) == c

begin_scope(c) == [c EXCEPT !.scope_depth = c.scope_depth + 1]

RECURSIVE end_scope_loop(_)
end_scope_loop(c) ==
  IF c.locals # <<>> /\ c.locals[Len(c.locals)].depth > c.scope_depth
  THEN end_scope_loop([emit(c, Op0("Pop")) EXCEPT
                         !.locals = SubSeq(c.locals, 1, Len(c.locals) - 1)])
  ELSE c

\* an end_scope that lowers the depth and leaves the locals where they are
end_scope_keeps_locals(c) ==
  IF c.scope_depth = 0 THEN Panicked(c)
  ELSE [c EXCEPT !.scope_depth = c.scope_depth - 1]

\* an end_scope that emits two discards for each local it removes
RECURSIVE end_scope_loop_twice(_)
end_scope_loop_twice(c) ==
  IF c.locals # <<>> /\ c.locals[Len(c.locals)].depth > c.scope_depth
  THEN end_scope_loop_twice([emit(emit(c, Op0("Pop")), Op0("Pop")) EXCEPT
                               !.locals = SubSeq(c.locals, 1, Len(c.locals) - 1)])
  ELSE c

end_scope_pops_twice(c) ==
  IF c.scope_depth = 0 THEN Panicked(c)
  ELSE end_scope_loop_twice([c EXCEPT !.scope_depth = c.scope_depth - 1])

\* scope_depth -= 1 on a usize 0 panics
end_scope(c) ==
  IF c.scope_depth = 0 THEN Panicked(c)
  ELSE end_scope_loop([c EXCEPT !.scope_depth = c.scope_depth - 1])

SyncKinds == {"Class", "Fun", "Var", "For", "If", "While", "Print", "Return"}

RECURSIVE synchronize_loop(_)
synchronize_loop(c) ==
  IF c.current.kind # "Eof"
  THEN IF c.previous.kind = "Semicolon" THEN c
       ELSE IF c.current.kind \in SyncKinds THEN c
       ELSE synchronize_loop(self_advance(c))
  ELSE c

\* a synchronize that clears the error flag with the panic flag
synchronize_clears_error(c) ==
  synchronize_loop([c EXCEPT !.panic_mode = FALSE, !.had_error = FALSE])

synchronize(c) == synchronize_loop([c EXCEPT !.panic_mode = FALSE])

expression(c) == self_parse_precedence(c, PrecAssignment)

number(c) == emit_const(c, Number(ParseNumber(c.previous.src)))

\* previous.src.len() - 2 underflows on a lexeme shorter than the two quotes
string(c) ==
  IF Len(c.previous.src) < 2 THEN Panicked(c)
  ELSE emit_const(c, Str(SubSeq(c.previous.src, 2, Len(c.previous.src) - 1)))

literal(c) ==
  CASE c.previous.kind = "Nil" -> emit(c, Op0("Nil"))
    [] c.previous.kind = "False" -> emit(c, Op0("False"))
    [] c.previous.kind = "True" -> emit(c, Op0("True"))
    [] OTHER -> Panicked(c)

unary(c) ==
  LET operand(c1, operator_kind) ==
        CASE operator_kind = "Minus" -> emit(c1, Op0("Negate"))
          [] operator_kind = "Bang" -> emit(c1, Op0("Not"))
          [] OTHER -> Panicked(c1)
  IN operand(self_parse_precedence(c, PrecUnary), c.previous.kind)

grouping(c) ==
  consume(expression(c), "RightParen", <<"Expect ')' after expression.">>)

\* the match of binary on the operator's kind
emit_operator(c1, operator_kind) ==
  CASE operator_kind = "Plus" -> emit(c1, Op0("Add"))
    [] operator_kind = "Minus" -> emit(c1, Op0("Subtract"))
    [] operator_kind = "Star" -> emit(c1, Op0("Multiply"))
    [] operator_kind = "Slash" -> emit(c1, Op0("Divide"))
    [] operator_kind = "BangEqual" -> emit2(c1, Op0("Equal"), Op0("Not"))
    [] operator_kind = "EqualEqual" -> emit(c1, Op0("Equal"))
    [] operator_kind = "Greater" -> emit(c1, Op0("Greater"))
    [] operator_kind = "GreaterEqual" -> emit2(c1, Op0("Less"), Op0("Not"))
    [] operator_kind = "Less" -> emit(c1, Op0("Less"))
    [] operator_kind = "LessEqual" -> emit2(c1, Op0("Greater"), Op0("Not"))
    [] OTHER -> Panicked(c1)

\* a binary that parses its right operand at the operator's own precedence
binary_same_precedence(c) ==
  emit_operator(self_parse_precedence(c, Rule(c.previous.kind).precedence),
                c.previous.kind)

binary(c) ==
  emit_operator(self_parse_precedence(c, PrecNext(Rule(c.previous.kind).precedence)),
                c.previous.kind)

named_variable(c, name, can_assign) ==
  LET access(c1, get_op, set_op) ==
        IF can_assign /\ check(c1, "Equal")
        THEN emit(expression(self_advance(c1)), set_op)
        ELSE emit(c1, get_op)
      global(c1) ==
        access(c1, Op("GetGlobal", Len(c1.chunk.constants) - 1),
                   Op("SetGlobal", Len(c1.chunk.constants) - 1))
      resolved(r) ==
        IF r.some
        THEN access(r.c, Op("GetLocal", r.idx), Op("SetLocal", r.idx))
        ELSE global(identifier_constant(r.c, name))
  IN resolved(resolve_local(c, name))

variable(c, can_assign) == named_variable(c, c.previous, can_assign)

\* a call through a ParseFn pointer of the rule table
CallParseFn(fn, c, can_assign) == Call(fn, c, can_assign)

\* the while loop of parse_precedence
RECURSIVE infix_loop(_, _, _)
infix_loop(c, precedence, can_assign) ==
  LET advanced(c1, infix_rule) ==
        IF infix_rule = "none" THEN Panicked(c1)
        ELSE infix_loop(CallParseFn(infix_rule, c1, can_assign),
                        precedence, can_assign)
      consumed(c1) == advanced(c1, Rule(c1.previous.kind).infix)
  IN IF precedence <= Rule(c.current.kind).precedence
     THEN consumed(self_advance(c))
     ELSE c

\* a parse_precedence that looks at the current token and takes it only when
\* an expression can start with it
parse_precedence_keeps_token(c, precedence) ==
  LET can_assign == precedence <= PrecAssignment
      parsed(c2) ==
        IF can_assign /\ check(c2, "Equal")
        THEN error(self_advance(c2), <<"Invalid assignment target">>)
        ELSE c2
      prefixed(c1, prefix_rule) ==
        parsed(infix_loop(CallParseFn(prefix_rule, c1, can_assign),
                          precedence, can_assign))
  IN IF Rule(c.current.kind).prefix = "none"
     THEN error_at_current(c, <<"Expect expression.">>)
     ELSE prefixed(self_advance(c), Rule(c.current.kind).prefix)

parse_precedence(c, precedence) ==
  LET can_assign == precedence <= PrecAssignment
      parsed(c2) ==
        IF can_assign /\ check(c2, "Equal")
        THEN error(self_advance(c2), <<"Invalid assignment target">>)
        ELSE c2
      prefixed(c1, prefix_rule) ==
        IF prefix_rule = "none" THEN error(c1, <<"Expect expression.">>)
        ELSE parsed(infix_loop(CallParseFn(prefix_rule, c1, can_assign),
                               precedence, can_assign))
      consumed(c1) == prefixed(c1, Rule(c1.previous.kind).prefix)
  IN consumed(self_advance(c))

print_statement(c) ==
  emit(consume(expression(c), "Semicolon", <<"Expect ';' after value.">>),
       Op0("Print"))

expression_statement(c) ==
  emit(consume(expression(c), "Semicolon", <<"Expect ';' after expression.">>),
       Op0("Pop"))

var_declaration(c) ==
  LET named(pv) ==
        define_variable(
          consume(IF check(pv.c, "Equal") THEN expression(self_advance(pv.c))
                  ELSE emit(pv.c, Op0("Nil")),
                  "Semicolon", <<"Expect ';' after variable declaration.">>),
          pv.global)
  IN named(parse_variable(c, <<"Expect variable name.">>))

if_statement(c) ==
  LET patched(c3, jump_loc) ==
        [c3 EXCEPT !.chunk.code[jump_loc + 1] = Op("JumpIfFalse", jump_loc)]
      jumped(j) == patched(self_statement(j.c), j.loc)
  IN jumped(emit_jump(
       consume(expression(consume(c, "LeftParen", <<"Expect '(' after 'if'.">>)),
               "RightParen", <<"Expect ')' after condition.">>),
       Op("JumpIfFalse", UsizeMax)))

\* the while loop of block
RECURSIVE block_loop(_)
block_loop(c) ==
  IF ~check(c, "RightBrace") /\ ~check(c, "Eof")
  THEN block_loop(self_declaration(c))
  ELSE c

block(c) == consume(block_loop(c), "RightBrace", <<"Expect '}' after block.">>)

statement(c) ==
  IF check(c, "Print") THEN print_statement(self_advance(c))
  ELSE IF check(c, "If") THEN if_statement(self_advance(c))
  ELSE IF check(c, "LeftBrace") THEN end_scope(block(begin_scope(self_advance(c))))
  ELSE expression_statement(c)

declaration(c) ==
  LET declared(c1) == IF c1.panic_mode THEN synchronize(c1) ELSE c1
  IN declared(IF check(c, "Var") THEN var_declaration(self_advance(c))
              ELSE self_statement(c))

Call(fn, c, x) ==
  CASE fn = "advance" -> advance(c)
    [] fn = "parse_precedence" -> parse_precedence(c, x)
    [] fn = "statement" -> statement(c)
    [] fn = "declaration" -> declaration(c)
    [] fn = "grouping" -> grouping(c)
    [] fn = "unary" -> unary(c)
    [] fn = "binary" -> binary(c)
    [] fn = "number" -> number(c)
    [] fn = "literal" -> literal(c)
    [] fn = "string" -> string(c)
    [] fn = "variable" -> variable(c, x)

\* Compiler::end
\* an end that emits nothing
end_without_return(c) == c

end(c) == emit_return(c)

---------------------------------------------------------------------------
(* impl Display for Value (value.rs): the text println! writes *)

DigitChars == <<"0", "1", "2", "3", "4", "5", "6", "7", "8", "9">>

RECURSIVE FmtNat(_)
FmtNat(n) ==
  IF n < 10 THEN <<DigitChars[n + 1]>>
  ELSE Append(FmtNat(n \div 10), DigitChars[(n % 10) + 1])

\* k digits of n, zero-padded on the left
RECURSIVE FmtPadded(_, _)
FmtPadded(n, k) ==
  IF k = 0 THEN <<>>
  ELSE Append(FmtPadded(n \div 10, k - 1), DigitChars[(n % 10) + 1])

\* the least k <= limit with d dividing 10^k, or -1
RECURSIVE DecimalPlaces(_, _, _)
DecimalPlaces(d, k, limit) ==
  IF Pow10(k) % d = 0 THEN k
  ELSE IF k = limit THEN -1
  ELSE DecimalPlaces(d, k + 1, limit)

\* f64's Display: integers without a fraction, short terminating decimals
\* digit by digit; a value whose shortest round-trip text is not modelled is
\* shown as num/den
FmtNumber(q) ==
  LET sign == IF q[1] < 0 THEN <<"-">> ELSE <<>>
      k == DecimalPlaces(q[2], 0, 6)
      scaled == (Abs(q[1]) * Pow10(k)) \div q[2]
  IN IF IsNaN(q) THEN <<"N", "a", "N">>
     ELSE IF IsInf(q) THEN sign \o <<"i", "n", "f">>
     ELSE IF q[2] = 1 THEN sign \o FmtNat(Abs(q[1]))
     ELSE IF k = -1 THEN sign \o FmtNat(Abs(q[1])) \o <<"/">> \o FmtNat(q[2])
     ELSE sign \o FmtNat(scaled \div Pow10(k)) \o <<".">>
          \o FmtPadded(scaled % Pow10(k), k)

Display(val) ==
  CASE val.t = "Bool" -> IF val.v THEN <<"t", "r", "u", "e">>
                         ELSE <<"f", "a", "l", "s", "e">>
    [] val.t = "Number" -> FmtNumber(val.v)
    [] val.t = "Str" -> val.v
    [] val.t = "Nil" -> <<"n", "i", "l">>

---------------------------------------------------------------------------
(* Vm (vm.rs).  vm is the Vm struct; stack[i] of the code is stack[i + 1]  *)
(* here; globals is a function from names to Values.  One turn of the      *)
(* dispatch loop gives StepResult: how the turn ended, the Vm it left, the *)
(* Err message (how = "err") and the line println! wrote (how = "ok").     *)

VmInit == [chunk |-> ChunkInit, ip |-> 0, stack |-> <<>>, globals |-> <<>>]

StepResult(how, vm, msg, printed) ==
  [how |-> how, vm |-> vm, msg |-> msg, printed |-> printed]

Continue(vm) == StepResult("ok", vm, <<>>, <<>>)

Err(vm, msg) == StepResult("err", vm, msg, <<>>)

RustPanic(vm) == StepResult("panic", vm, <<>>, <<>>)

push(vm, data) == [vm EXCEPT !.stack = Append(vm.stack, data)]

\* pop and peek panic on a Vec too short (stack.len() - 1 on usize, remove)
CanPeek(vm, distance) == Len(vm.stack) >= distance + 1

peekv(vm, distance) == vm.stack[Len(vm.stack) - distance]

\* the Vm after pop; the value popped is peekv(vm, 0)
pop(vm) == [vm EXCEPT !.stack = SubSeq(vm.stack, 1, Len(vm.stack) - 1)]

HasGlobal(vm, name) == name \in DOMAIN vm.globals

\* AHashMap::insert
GlobalsInsert(globals, name, value) ==
  [n \in DOMAIN globals \cup {name} |->
     IF n = name THEN value ELSE globals[n]]

\* chunk.constants[idx] as a name: panics out of bounds and on a non-string
NameConstOk(vm, idx) ==
  idx < Len(vm.chunk.constants) /\ is_str(vm.chunk.constants[idx + 1])

NameConst(vm, idx) == vm.chunk.constants[idx + 1].v

op_const(vm, idx) ==
  IF idx >= Len(vm.chunk.constants) THEN RustPanic(vm)
  ELSE Continue(push(vm, vm.chunk.constants[idx + 1]))

\* a DefineGlobal that keeps the value a name already has
op_define_global_keeps_first(vm, idx) ==
  IF ~NameConstOk(vm, idx) \/ ~CanPeek(vm, 0) THEN RustPanic(vm)
  ELSE IF HasGlobal(vm, NameConst(vm, idx)) THEN Continue(pop(vm))
  ELSE Continue([pop(vm) EXCEPT
                   !.globals = GlobalsInsert(vm.globals, NameConst(vm, idx),
                                             peekv(vm, 0))])

op_define_global(vm, idx) ==
  IF ~NameConstOk(vm, idx) \/ ~CanPeek(vm, 0) THEN RustPanic(vm)
  ELSE Continue([pop(vm) EXCEPT
                   !.globals = GlobalsInsert(vm.globals, NameConst(vm, idx),
                                             peekv(vm, 0))])

op_get_global(vm, idx) ==
  IF ~NameConstOk(vm, idx) THEN RustPanic(vm)
  ELSE IF ~HasGlobal(vm, NameConst(vm, idx))
  THEN Err(vm, <<"Undefined variable ", NameConst(vm, idx)>>)
  ELSE Continue(push(vm, vm.globals[NameConst(vm, idx)]))

\* a SetGlobal that, like DefineGlobal, creates the entry of an absent name
op_set_global_inserts(vm, idx) ==
  IF ~NameConstOk(vm, idx) \/ ~CanPeek(vm, 0) THEN RustPanic(vm)
  ELSE Continue([vm EXCEPT
                   !.globals = GlobalsInsert(vm.globals, NameConst(vm, idx),
                                             peekv(vm, 0))])

op_set_global(vm, idx) ==
  IF ~NameConstOk(vm, idx) \/ ~CanPeek(vm, 0) THEN RustPanic(vm)
  ELSE IF HasGlobal(vm, NameConst(vm, idx))
  THEN Continue([vm EXCEPT !.globals[NameConst(vm, idx)] = peekv(vm, 0)])
  ELSE Err(vm, <<"Undefined variable ", NameConst(vm, idx)>>)

\* an add that joins two strings with the right operand first
add_right_operand_first(vm) ==
  IF ~CanPeek(vm, 1) THEN RustPanic(vm)
  ELSE IF is_str(peekv(vm, 0)) /\ is_str(peekv(vm, 1))
  THEN Continue(push(pop(pop(vm)), Str(peekv(vm, 0).v \o peekv(vm, 1).v)))
  ELSE IF is_number(peekv(vm, 0)) /\ is_number(peekv(vm, 1))
  THEN Continue(push(pop(pop(vm)),
                     Number(NumAdd(peekv(vm, 1).v, peekv(vm, 0).v))))
  ELSE Err(vm, <<"Operands to + must be two numbers or two strings.">>)

\* Vm::add; && does not look at peek(1) when peek(0) fails the test
add(vm) ==
  IF ~CanPeek(vm, 0) THEN RustPanic(vm)
  ELSE IF is_str(peekv(vm, 0))
  THEN IF ~CanPeek(vm, 1) THEN RustPanic(vm)
       ELSE IF is_str(peekv(vm, 1))
       THEN Continue(push(pop(pop(vm)),
                          Str(peekv(vm, 1).v \o peekv(vm, 0).v)))
       ELSE Err(vm, <<"Operands to + must be two numbers or two strings.">>)
  ELSE IF is_number(peekv(vm, 0))
  THEN IF ~CanPeek(vm, 1) THEN RustPanic(vm)
       ELSE IF is_number(peekv(vm, 1))
       THEN Continue(push(pop(pop(vm)),
                          Number(NumAdd(peekv(vm, 1).v, peekv(vm, 0).v))))
       ELSE Err(vm, <<"Operands to + must be two numbers or two strings.">>)
  ELSE Err(vm, <<"Operands to + must be two numbers or two strings.">>)

\* $out(a $op b) of binary_op!
BinaryResult(op, a, b) ==
  CASE op = "Subtract" -> Number(NumSub(a, b))
    [] op = "Multiply" -> Number(NumMul(a, b))
    [] op = "Divide" -> Number(NumDiv(a, b))
    [] op = "Greater" -> Bool(NumGreater(a, b))
    [] op = "Less" -> Bool(NumLess(a, b))

\* binary_op!; || does not look at peek(1) when peek(0) is not a number
binary_op(vm, op) ==
  IF ~CanPeek(vm, 0) THEN RustPanic(vm)
  ELSE IF ~is_number(peekv(vm, 0)) THEN Err(vm, <<"Operands must be numbers.">>)
  ELSE IF ~CanPeek(vm, 1) THEN RustPanic(vm)
  ELSE IF ~is_number(peekv(vm, 1)) THEN Err(vm, <<"Operands must be numbers.">>)
  ELSE Continue(push(pop(pop(vm)),
                     BinaryResult(op, peekv(vm, 1).v, peekv(vm, 0).v)))

op_negate(vm) ==
  IF ~CanPeek(vm, 0) THEN RustPanic(vm)
  ELSE IF is_number(peekv(vm, 0))
  THEN Continue(push(pop(vm), Number(NumNeg(peekv(vm, 0).v))))
  ELSE Err(pop(vm), <<"Operand to negate (-) must be a number.">>)

op_not(vm) ==
  IF ~CanPeek(vm, 0) THEN RustPanic(vm)
  ELSE Continue(push(pop(vm), Bool(is_falsey(peekv(vm, 0)))))

\* an Op::Equal that, like the ordering operators, refuses operands of two
\* variants
op_equal_one_variant(vm) ==
  IF ~CanPeek(vm, 1) THEN RustPanic(vm)
  ELSE IF peekv(vm, 0).t # peekv(vm, 1).t
  THEN Err(vm, <<"Operands must be of one type.">>)
  ELSE Continue(push(pop(pop(vm)),
                     Bool(ValueEq(peekv(vm, 0), peekv(vm, 1)))))

op_equal(vm) ==
  IF ~CanPeek(vm, 1) THEN RustPanic(vm)
  ELSE Continue(push(pop(pop(vm)),
                     Bool(ValueEq(peekv(vm, 0), peekv(vm, 1)))))

op_print(vm) ==
  IF ~CanPeek(vm, 0) THEN RustPanic(vm)
  ELSE StepResult("ok", pop(vm), <<>>, <<Display(peekv(vm, 0))>>)

op_pop(vm) == IF ~CanPeek(vm, 0) THEN RustPanic(vm) ELSE Continue(pop(vm))

\* The match of Vm::run in src/ has no arm for GetLocal, SetLocal and
\* JumpIfFalse.  A local is the stack slot of its index; the branch peeks the
\* top and, when it is falsey, moves ip to the encoded target.
op_get_local(vm, idx) ==
  IF idx >= Len(vm.stack) THEN RustPanic(vm)
  ELSE Continue(push(vm, vm.stack[idx + 1]))

op_set_local(vm, idx) ==
  IF idx >= Len(vm.stack) THEN RustPanic(vm)
  ELSE Continue([vm EXCEPT !.stack[idx + 1] = peekv(vm, 0)])

op_jump_if_false(vm, target) ==
  IF ~CanPeek(vm, 0) THEN RustPanic(vm)
  ELSE IF is_falsey(peekv(vm, 0)) THEN Continue([vm EXCEPT !.ip = target])
  ELSE Continue(vm)

\* the body of the loop of Vm::run: fetch, advance ip, match
run_step(vm) ==
  IF vm.ip >= Len(vm.chunk.code) THEN RustPanic(vm)
  ELSE
  LET instruction == vm.chunk.code[vm.ip + 1]
      vm1 == [vm EXCEPT !.ip = vm.ip + 1]
      o == instruction.op
      a == instruction.arg
  IN CASE o = "Const" -> op_const(vm1, a)
       [] o = "DefineGlobal" -> op_define_global(vm1, a)
       [] o = "GetGlobal" -> op_get_global(vm1, a)
       [] o = "SetGlobal" -> op_set_global(vm1, a)
       [] o = "GetLocal" -> op_get_local(vm1, a)
       [] o = "SetLocal" -> op_set_local(vm1, a)
       [] o = "JumpIfFalse" -> op_jump_if_false(vm1, a)
       [] o = "Add" -> add(vm1)
       [] o \in {"Subtract", "Multiply", "Divide", "Greater", "Less"} ->
            binary_op(vm1, o)
       [] o = "Negate" -> op_negate(vm1)
       [] o = "Nil" -> Continue(push(vm1, Nil))
       [] o = "True" -> Continue(push(vm1, Bool(TRUE)))
       [] o = "False" -> Continue(push(vm1, Bool(FALSE)))
       [] o = "Not" -> op_not(vm1)
       [] o = "Equal" -> op_equal(vm1)
       [] o = "Print" -> op_print(vm1)
       [] o = "Pop" -> op_pop(vm1)
       [] o = "Return" -> StepResult("return", vm1, <<>>, <<>>)

\* a reset_stack that clears nothing
reset_stack_keeps(vm) == vm

reset_stack(vm) == [vm EXCEPT !.stack = <<>>]

\* a runtime_error that resets the whole Vm, the globals table with the stack
runtime_error_clears_globals(vm) ==
  LET line == rle_get(vm.chunk.lines, vm.ip)
  IN [panic |-> ~line.some,
      vm |-> [reset_stack(vm) EXCEPT !.globals = <<>>],
      line |-> line.val]

\* Vm::runtime_error: lines.get(self.ip).expect(...), then reset_stack; gives
\* [panic, vm, line]
runtime_error(vm) ==
  LET line == rle_get(vm.chunk.lines, vm.ip)
  IN [panic |-> ~line.some, vm |-> reset_stack(vm), line |-> line.val]

---------------------------------------------------------------------------
(* Source texts handed to interpret *)

\* var a = 1;
SrcDefineA ==
  <<"v", "a", "r", " ", "a", " ", "=", " ", "1", ";">>

\* var a = 3;
SrcRedefineA ==
  <<"v", "a", "r", " ", "a", " ", "=", " ", "3", ";">>

\* var a = 1; a = 2; print a;
SrcAssignPrintA ==
  <<"v", "a", "r", " ", "a", " ", "=", " ", "1", ";", " ", "a", " ", "=",
    " ", "2", ";", " ", "p", "r", "i", "n", "t", " ", "a", ";">>

\* print a;
SrcPrintA ==
  <<"p", "r", "i", "n", "t", " ", "a", ";">>

\* print b;
SrcPrintB ==
  <<"p", "r", "i", "n", "t", " ", "b", ";">>

\* if (false) print 1; print 2;
SrcIfFalse ==
  <<"i", "f", " ", "(", "f", "a", "l", "s", "e", ")", " ", "p", "r", "i",
    "n", "t", " ", "1", ";", " ", "p", "r", "i", "n", "t", " ", "2", ";">>

\* if (true) print 1;
SrcIfTrue ==
  <<"i", "f", " ", "(", "t", "r", "u", "e", ")", " ", "p", "r", "i", "n",
    "t", " ", "1", ";">>

\* { var a = 1; { var a = 2; print a; } print a; }
SrcShadow ==
  <<"{", " ", "v", "a", "r", " ", "a", " ", "=", " ", "1", ";", " ", "{",
    " ", "v", "a", "r", " ", "a", " ", "=", " ", "2", ";", " ", "p", "r",
    "i", "n", "t", " ", "a", ";", " ", "}", " ", "p", "r", "i", "n", "t",
    " ", "a", ";", " ", "}">>

\* { var a = a; }
SrcSelfInit ==
  <<"{", " ", "v", "a", "r", " ", "a", " ", "=", " ", "a", ";", " ", "}">>

\* print !nil; print !false; print !0; print !""; print !true;
SrcFalsey ==
  <<"p", "r", "i", "n", "t", " ", "!", "n", "i", "l", ";", " ", "p", "r",
    "i", "n", "t", " ", "!", "f", "a", "l", "s", "e", ";", " ", "p", "r",
    "i", "n", "t", " ", "!", "0", ";", " ", "p", "r", "i", "n", "t", " ",
    "!", "\"", "\"", ";", " ", "p", "r", "i", "n", "t", " ", "!", "t", "r",
    "u", "e", ";">>

\* print ;
SrcSyntaxError ==
  <<"p", "r", "i", "n", "t", " ", ";">>

\* 1 + 2;
SrcExprStmt ==
  <<"1", " ", "+", " ", "2", ";">>

\* { var a = 1; var b = 2; print b; }
SrcTwoLocals ==
  <<"{", " ", "v", "a", "r", " ", "a", " ", "=", " ", "1", ";", " ", "v",
    "a", "r", " ", "b", " ", "=", " ", "2", ";", " ", "p", "r", "i", "n",
    "t", " ", "b", ";", " ", "}">>

\* b = 2;
SrcAssignB ==
  <<"b", " ", "=", " ", "2", ";">>

SessionSources ==
  {SrcDefineA,
   SrcRedefineA,
   SrcAssignPrintA,
   SrcPrintA,
   SrcPrintB,
   SrcIfFalse,
   SrcIfTrue,
   SrcShadow,
   SrcSelfInit,
   SrcFalsey,
   SrcSyntaxError,
   SrcExprStmt,
   SrcTwoLocals,
   SrcAssignB}

---------------------------------------------------------------------------
(* The session: main.rs's repl calls interpret on one Vm again and again. *)

\* interpret calls made on the one Vm
MaxCalls == 3

VARIABLES
  vm,           \* the Vm
  c,            \* the Compiler of the call in progress
  pc,           \* "idle" between calls, "compile", "run", "panic"
  source,       \* the text of the call in progress or last made
  returned,     \* the InterpretResult of every call that returned, in order
  out,          \* the lines the call has written to stdout
  err,          \* the runtime-error report of the call: <<>> or <<[msg, line]>>
  entry_depth,  \* stack.len() when the call was made
  rle,          \* the RunLengthEncoded of the tests of rle.rs
  pushed        \* the test_array of those tests, as far as it is pushed

vars == <<vm, c, pc, source, returned, out, err, entry_depth, rle, pushed>>

\* the session does not touch the RunLengthEncoded of the tests
NoTest == UNCHANGED <<rle, pushed>>

\* the compiler is a local of compile: none is held between calls
NoCompiler == CompilerInit(<<>>)

Init ==
  /\ vm = VmInit
  /\ c = NoCompiler
  /\ pc = "idle"
  /\ source = <<>>
  /\ returned = <<>>
  /\ out = <<>>
  /\ err = <<>>
  /\ entry_depth = 0
  /\ rle = RleNew
  /\ pushed = <<>>

\* interpret is entered: Compiler::compile builds the compiler and advances once
Enter(src) ==
  LET c0 == self_advance(CompilerInit(src)) IN
  /\ source' = src
  /\ c' = c0
  /\ pc' = IF c0.abort THEN "panic" ELSE "compile"
  /\ out' = <<>>
  /\ err' = <<>>
  /\ entry_depth' = Len(vm.stack)
  /\ UNCHANGED <<vm, returned>>

Interpret ==
  /\ pc = "idle"
  /\ Len(returned) < MaxCalls
  /\ \E src \in SessionSources : Enter(src)
  /\ NoTest

\* an interpret that loads the chunk before it looks at the result of compile
load_compiled_always(v, c1) == [v EXCEPT !.chunk = c1.chunk, !.ip = 0]

\* interpret after Compiler::compile: Err(()) returns at once, Ok(chunk) sets
\* self.chunk and self.ip
load_compiled(v, c1) ==
  IF c1.had_error THEN v ELSE [v EXCEPT !.chunk = c1.chunk, !.ip = 0]

\* one turn of `while !compiler.match_t(Eof) { declaration() }`, or the exit of
\* the loop: end(), then Err(()) to interpret's CompileError or the chunk to
\* self.chunk with ip = 0
CompileStep ==
  /\ pc = "compile"
  /\ IF check(c, "Eof")
     THEN LET c1 == end(self_advance(c)) IN
          /\ c' = NoCompiler
          /\ IF c1.abort
             THEN /\ pc' = "panic"
                  /\ UNCHANGED <<vm, returned>>
             ELSE IF c1.had_error
             THEN /\ pc' = "idle"
                  /\ returned' = Append(returned, "CompileError")
                  /\ vm' = load_compiled(vm, c1)
             ELSE /\ pc' = "run"
                  /\ vm' = load_compiled(vm, c1)
                  /\ UNCHANGED returned
     ELSE LET c1 == self_declaration(c) IN
          /\ c' = c1
          /\ pc' = IF c1.abort THEN "panic" ELSE "compile"
          /\ UNCHANGED <<vm, returned>>
  /\ UNCHANGED <<source, out, err, entry_depth>>
  /\ NoTest

\* one turn of the loop of Vm::run, and interpret's return when run returns
RunStep ==
  /\ pc = "run"
  /\ LET r == run_step(vm)
         e == runtime_error(r.vm)
     IN CASE r.how = "ok" ->
               /\ vm' = r.vm
               /\ out' = out \o r.printed
               /\ UNCHANGED <<pc, returned, err>>
          [] r.how = "return" ->
               /\ vm' = r.vm
               /\ pc' = "idle"
               /\ returned' = Append(returned, "Ok")
               /\ UNCHANGED <<out, err>>
          [] r.how = "err" /\ ~e.panic ->
               /\ vm' = e.vm
               /\ err' = <<[msg |-> r.msg, line |-> e.line]>>
               /\ pc' = "idle"
               /\ returned' = Append(returned, "RuntimeError")
               /\ UNCHANGED out
          [] OTHER ->
               /\ vm' = r.vm
               /\ pc' = "panic"
               /\ UNCHANGED <<returned, out, err>>
  /\ UNCHANGED <<c, source, entry_depth>>
  /\ NoTest

Next == Interpret \/ CompileStep \/ RunStep

Spec == Init /\ [][Next]_vars

\* the dispatch loop of Vm::run goes on turning for as long as a turn can
\* change anything: no caller is obliged to call interpret again
SpecFair == Spec /\ WF_vars(RunStep)

---------------------------------------------------------------------------
(* Properties of sessions: calls of interpret on one Vm *)

LastReturned == returned[Len(returned)]

\* the call has returned `result`
Returned(result) == pc = "idle" /\ returned # <<>> /\ LastReturned = result

\* the instruction the dispatch loop reads next
AtInstruction(name) ==
  /\ pc = "run"
  /\ vm.ip < Len(vm.chunk.code)
  /\ vm.chunk.code[vm.ip + 1].op = name

NextArg == vm.chunk.code[vm.ip + 1].arg

\* the next turn of the dispatch loop stores to the global `n`
GlobalWrite(n) ==
  /\ AtInstruction("DefineGlobal") \/ AtInstruction("SetGlobal")
  /\ NameConstOk(vm, NextArg)
  /\ NameConst(vm, NextArg) = n

\* C1: the globals table lives on the Vm and outlasts every call: no step of
\* a session (the entry of a call, a compile step, a turn of the dispatch
\* loop, a return with Ok, CompileError or RuntimeError) removes a name from
\* it, and a name's value changes only in a turn that executes DefineGlobal
\* or SetGlobal on that name; so what an earlier call stored is what a later
\* call reads.
C1_GlobalsPersist ==
  [][\A n \in DOMAIN vm.globals :
       /\ n \in DOMAIN vm'.globals
       /\ ~GlobalWrite(n) => vm'.globals[n] = vm.globals[n]]_vars

\* `var a = 1;` returned Ok, the next call failed, the third reads a
C1_Witness ==
  /\ Returned("Ok")
  /\ Len(returned) = 3
  /\ returned[1] = "Ok"
  /\ returned[2] \in {"RuntimeError", "CompileError"}
  /\ source = SrcPrintA
  /\ out = << <<"1">> >>

\* C2: the step in which interpret returns RuntimeError leaves the value
\* stack empty and the globals table as it was before the failing
\* instruction.
C2_RuntimeErrorResetsStackOnly ==
  [][(pc = "run" /\ pc' = "idle" /\ returned' = Append(returned, "RuntimeError"))
       => (vm'.stack = <<>> /\ vm'.globals = vm.globals)]_vars

\* a call that found values on the stack and names in the table has failed
C2_Witness ==
  /\ Returned("RuntimeError")
  /\ entry_depth > 0
  /\ DOMAIN vm.globals # {}
  /\ vm.stack = <<>>

\* the indices (from 1) of the JumpIfFalse instructions after the first `from`
JumpsAfter(code, from) ==
  {i \in (from + 1)..Len(code) : code[i].op = "JumpIfFalse"}

\* C3: when a declaration that begins with `if` has compiled without error,
\* the operand of its JumpIfFalse (the first one the statement emitted) is the
\* number of instructions in the chunk now that the body is compiled, the
\* offset of the first instruction after the body.
C3_JumpTargetsEndOfBody ==
  [][(pc = "compile" /\ check(c, "If") /\ pc' = "compile" /\ ~c'.had_error)
       => LET code == c'.chunk.code
              js == JumpsAfter(code, Len(c.chunk.code))
          IN /\ js # {}
             /\ \A i \in js :
                  (\A k \in js : i <= k) => code[i].arg = Len(code)]_vars

\* C4: a call that returns Ok leaves the value stack as deep as it found it:
\* every statement a program is made of is stack-neutral.
C4_StatementsStackNeutral ==
  Returned("Ok") => Len(vm.stack) = entry_depth

\* C5: every call of interpret ends; for the part of a call spent in Vm::run,
\* the dispatch loop always reaches Return or a runtime error and interpret
\* returns (the abort of the process by a panic counted as an end too).
C5_InterpretTerminates ==
  (pc = "run") ~> (pc \in {"idle", "panic"})

IsNilOrFalse(val) == val.t = "Nil" \/ (val.t = "Bool" /\ val.v = FALSE)

\* C6: is_falsey is true of nil and false and of nothing else, whatever value
\* the stack holds, and `print !nil; print !false; print !0; print !"";
\* print !true;` prints true, true, false, false, false.
C6_FalseyExactlyNilAndFalse ==
  /\ \A i \in DOMAIN vm.stack :
       is_falsey(vm.stack[i]) = IsNilOrFalse(vm.stack[i])
  /\ (Returned("Ok") /\ source = SrcFalsey)
       => out = << <<"t", "r", "u", "e">>, <<"t", "r", "u", "e">>,
                   <<"f", "a", "l", "s", "e">>, <<"f", "a", "l", "s", "e">>,
                   <<"f", "a", "l", "s", "e">> >>

\* C7: a call on `{ var a = a; }` only ever compiles, and returns
\* CompileError: none of it is executed.
C7_SelfInitializerRejected ==
  source = SrcSelfInit => (pc = "compile" \/ Returned("CompileError"))

\* C9: the locals list and the scope depth after a top-level declaration,
\* every block of it closed, are those before it; a block compiles to one Pop
\* for each of its locals where it closes (two scopes of one local in the
\* shadowing example, one scope of two locals in `{ var a = 1; var b = 2;
\* print b; }`), and on an empty stack the shadowing example prints 2 then 1
\* and both leave the stack empty.
C9_BlockLocalsRemoved ==
  /\ [][(pc = "compile" /\ pc' = "compile")
          => (c'.locals = c.locals /\ c'.scope_depth = c.scope_depth)]_vars
  /\ []((source = SrcShadow /\ (pc = "run" \/ pc = "idle"))
          => vm.chunk.code =
               <<Op("Const", 0), Op("Const", 1), Op("GetLocal", 1),
                 Op0("Print"), Op0("Pop"), Op("GetLocal", 0), Op0("Print"),
                 Op0("Pop"), Op0("Return")>>)
  /\ []((source = SrcTwoLocals /\ (pc = "run" \/ pc = "idle"))
          => vm.chunk.code =
               <<Op("Const", 0), Op("Const", 1), Op("GetLocal", 1),
                 Op0("Print"), Op0("Pop"), Op0("Pop"), Op0("Return")>>)
  /\ []((source = SrcShadow /\ pc = "idle" /\ entry_depth = 0)
          => /\ LastReturned = "Ok"
             /\ out = << <<"2">>, <<"1">> >>
             /\ vm.stack = <<>>)
  /\ []((source = SrcTwoLocals /\ pc = "idle" /\ entry_depth = 0)
          => /\ LastReturned = "Ok"
             /\ out = << <<"2">> >>
             /\ vm.stack = <<>>)

C9_Witness ==
  /\ Returned("Ok")
  /\ source = SrcShadow
  /\ entry_depth = 0
  /\ out = << <<"2">>, <<"1">> >>

NameA == <<"a">>

NameB == <<"b">>

\* C10: a turn that executes GetGlobal pushes the value the table holds for
\* the name, or, the name absent, ends the call with RuntimeError and a
\* message that names the variable; a turn that executes DefineGlobal or a
\* SetGlobal of a present name makes the top of the stack the name's value.
\* So `var a = 1; a = 2; print a;` prints 2, `var a = 3;` gives a the value 3
\* whatever it had, and `print a;`, `print b;` print the stored value or fail
\* with "Undefined variable" and the name.
C10_GetGlobalYieldsLastStored ==
  /\ [][AtInstruction("GetGlobal") /\ NameConstOk(vm, NextArg)
          => IF HasGlobal(vm, NameConst(vm, NextArg))
             THEN /\ pc' = "run"
                  /\ vm'.stack = Append(vm.stack, vm.globals[NameConst(vm, NextArg)])
             ELSE /\ pc' = "idle"
                  /\ returned' = Append(returned, "RuntimeError")
                  /\ err'[1].msg = <<"Undefined variable ", NameConst(vm, NextArg)>>]_vars
  /\ [][(/\ AtInstruction("DefineGlobal") \/ AtInstruction("SetGlobal")
         /\ NameConstOk(vm, NextArg)
         /\ vm.stack # <<>>
         /\ AtInstruction("SetGlobal") => HasGlobal(vm, NameConst(vm, NextArg)))
          => /\ HasGlobal(vm', NameConst(vm, NextArg))
             /\ vm'.globals[NameConst(vm, NextArg)] = vm.stack[Len(vm.stack)]]_vars
  /\ []((pc = "idle" /\ source = SrcAssignPrintA)
          => /\ LastReturned = "Ok"
             /\ out = << <<"2">> >>
             /\ vm.globals[NameA] = Number(Rat(2, 1)))
  /\ []((pc = "idle" /\ source = SrcRedefineA)
          => /\ LastReturned = "Ok"
             /\ vm.globals[NameA] = Number(Rat(3, 1)))
  /\ []((pc = "idle" /\ source = SrcPrintA)
          => IF HasGlobal(vm, NameA)
             THEN LastReturned = "Ok" /\ out = <<Display(vm.globals[NameA])>>
             ELSE /\ LastReturned = "RuntimeError"
                  /\ err[1].msg = <<"Undefined variable ", NameA>>)
  /\ []((pc = "idle" /\ source = SrcPrintB)
          => /\ LastReturned = "RuntimeError"
             /\ err[1].msg = <<"Undefined variable ", NameB>>)

\* a was defined, then redefined as 3, then read
C10_Witness ==
  /\ Returned("Ok")
  /\ Len(returned) = 3
  /\ source = SrcPrintA
  /\ out = << <<"3">> >>

---------------------------------------------------------------------------
(* Arithmetic expressions: each call compiles and runs `print E;` on a new *)
(* Vm, E built from the numbers 1, 2, ... in order, + - * / and            *)
(* parentheses.                                                            *)

MaxOps == 3

BinaryOperators == {"+", "-", "*", "/"}

\* the shapes of the expressions with k operators, in prefix form: "n" a number
RECURSIVE Shapes(_)
Shapes(k) ==
  IF k = 0 THEN {<<"n">>}
  ELSE UNION {UNION {{<<o>> \o l \o r : l \in Shapes(i), r \in Shapes(k - 1 - i)} :
                       i \in 0..(k - 1)} :
                o \in BinaryOperators}

\* binding strength in the grammar: a number or a parenthesis 3, * / 2, + - 1
Binding(o) == IF o \in {"*", "/"} THEN 2 ELSE 1

Parenthesised(chars) == <<"(">> \o chars \o <<")">>

\* the text of the first expression of the prefix form t, its numbers counted
\* from n; `full` puts every operand that is not a number in parentheses,
\* otherwise only the operands that need them (a left operand that binds
\* less than the operator, a right operand that binds no more)
RECURSIVE Unparse(_, _, _)
Unparse(t, n, full) ==
  IF Head(t) = "n"
  THEN [chars |-> <<DigitChars[n + 1]>>, rest |-> Tail(t), n |-> n + 1, binding |-> 3]
  ELSE LET o == Head(t)
           joined(l, r) ==
             [chars |->
                (IF l.binding < (IF full THEN 3 ELSE Binding(o))
                 THEN Parenthesised(l.chars) ELSE l.chars)
                \o <<" ", o, " ">> \o
                (IF r.binding < (IF full THEN 3 ELSE Binding(o) + 1)
                 THEN Parenthesised(r.chars) ELSE r.chars),
              rest |-> r.rest, n |-> r.n, binding |-> Binding(o)]
           right(l) == joined(l, Unparse(l.rest, l.n, full))
       IN right(Unparse(Tail(t), n, full))

PrintStatement(chars) == <<"p", "r", "i", "n", "t", " ">> \o chars \o <<";">>

ExprSources ==
  UNION {{PrintStatement(Unparse(t, 1, full).chars) : full \in BOOLEAN} :
           t \in UNION {Shapes(k) : k \in 0..MaxOps}}

\* E of `print E;`, its spaces dropped
ExprOf(src) == SelectSeq(SubSeq(src, 7, Len(src) - 1), LAMBDA ch : ch # " ")

\* how many parentheses are open before e[i]
Depth(e, i) ==
  Cardinality({j \in 1..(i - 1) : e[j] = "("})
    - Cardinality({j \in 1..(i - 1) : e[j] = ")"})

\* the last operator of `ops` outside every parenthesis of e, 0 when none
LastOutside(e, ops) ==
  LET at == {i \in 1..Len(e) : e[i] \in ops /\ Depth(e, i) = 0}
  IN IF at = {} THEN 0 ELSE CHOOSE i \in at : \A k \in at : k <= i

\* the operator applied last under the standard reading: the rightmost + or -
\* outside parentheses, failing that the rightmost * or /; 0 for a number or a
\* parenthesis
MainOperator(e) ==
  IF LastOutside(e, {"+", "-"}) # 0 THEN LastOutside(e, {"+", "-"})
  ELSE LastOutside(e, {"*", "/"})

\* the postfix form of e under the standard reading
RECURSIVE RefPostfix(_)
RefPostfix(e) ==
  IF MainOperator(e) # 0
  THEN RefPostfix(SubSeq(e, 1, MainOperator(e) - 1))
       \o RefPostfix(SubSeq(e, MainOperator(e) + 1, Len(e)))
       \o <<e[MainOperator(e)]>>
  ELSE IF e[1] = "(" THEN RefPostfix(SubSeq(e, 2, Len(e) - 1))
  ELSE e

Apply(o, a, b) ==
  CASE o = "+" -> NumAdd(a, b)
    [] o = "-" -> NumSub(a, b)
    [] o = "*" -> NumMul(a, b)
    [] o = "/" -> NumDiv(a, b)

\* the value of e under the standard reading
RECURSIVE RefValue(_)
RefValue(e) ==
  IF MainOperator(e) # 0
  THEN Apply(e[MainOperator(e)],
             RefValue(SubSeq(e, 1, MainOperator(e) - 1)),
             RefValue(SubSeq(e, MainOperator(e) + 1, Len(e))))
  ELSE IF e[1] = "(" THEN RefValue(SubSeq(e, 2, Len(e) - 1))
  ELSE Rat(DigitVal(e[1]), 1)

\* an instruction as a postfix symbol: a constant as its number is printed
Symbol(chunk, instruction) ==
  CASE instruction.op = "Const" -> Display(chunk.constants[instruction.arg + 1])
    [] instruction.op = "Add" -> <<"+">>
    [] instruction.op = "Subtract" -> <<"-">>
    [] instruction.op = "Multiply" -> <<"*">>
    [] instruction.op = "Divide" -> <<"/">>
    [] OTHER -> <<instruction.op>>

Symbols(chunk) == [i \in 1..Len(chunk.code) |-> Symbol(chunk, chunk.code[i])]

\* the chunk `print E;` compiles to when E is read the standard way
RefSymbols(src) ==
  [i \in 1..Len(RefPostfix(ExprOf(src))) |-> <<RefPostfix(ExprOf(src))[i]>>]
    \o << <<"Print">>, <<"Return">> >>

\* print 1 + 2 * 3;
SrcPrecedence == PrintStatement(<<"1", " ", "+", " ", "2", " ", "*", " ", "3">>)

\* print (1 + 2) * 3;
SrcGrouping ==
  PrintStatement(<<"(", "1", " ", "+", " ", "2", ")", " ", "*", " ", "3">>)

\* print 1 - 2 - 3;
SrcLeftAssoc == PrintStatement(<<"1", " ", "-", " ", "2", " ", "-", " ", "3">>)

InitExpr ==
  /\ vm = VmInit
  /\ source \in ExprSources
  /\ c = self_advance(CompilerInit(source))
  /\ pc = IF c.abort THEN "panic" ELSE "compile"
  /\ returned = <<>>
  /\ out = <<>>
  /\ err = <<>>
  /\ entry_depth = 0
  /\ rle = RleNew
  /\ pushed = <<>>

NextExpr == CompileStep \/ RunStep

SpecExpr == InitExpr /\ [][NextExpr]_vars

\* C8: compiling `print E;` for an arithmetic expression E gives the postfix
\* form of E under the standard reading (* and / bind tighter than + and -,
\* operators of one level group to the left, parentheses override), and
\* running it prints the value of E under that reading: 7 for 1 + 2 * 3,
\* 9 for (1 + 2) * 3, -4 for 1 - 2 - 3.
C8_PostfixWithPrecedence ==
  /\ pc # "panic"
  /\ (pc = "run" \/ pc = "idle") => Symbols(vm.chunk) = RefSymbols(source)
  /\ pc = "idle"
       => /\ returned = <<"Ok">>
          /\ out = <<FmtNumber(RefValue(ExprOf(source)))>>
          /\ source = SrcPrecedence => out = << <<"7">> >>
          /\ source = SrcGrouping => out = << <<"9">> >>
          /\ source = SrcLeftAssoc => out = << <<"-", "4">> >>

\* 1 - 2 - 3 was compiled, run and printed as (1 - 2) - 3
C8_Witness ==
  /\ pc = "idle"
  /\ source = SrcLeftAssoc
  /\ vm.chunk.code = <<Op("Const", 0), Op("Const", 1), Op0("Subtract"),
                       Op("Const", 2), Op0("Subtract"), Op0("Print"),
                       Op0("Return")>>
  /\ out = << <<"-", "4">> >>

---------------------------------------------------------------------------
(* Binary operators on operands of every variant: each call compiles and   *)
(* runs `print X op Y;` on a new Vm, X and Y literals.                     *)

\* a call of interpret on a new Vm with one of `sources`
StartsOn(sources) ==
  /\ vm = VmInit
  /\ source \in sources
  /\ c = self_advance(CompilerInit(source))
  /\ pc = IF c.abort THEN "panic" ELSE "compile"
  /\ returned = <<>>
  /\ out = <<>>
  /\ err = <<>>
  /\ entry_depth = 0
  /\ rle = RleNew
  /\ pushed = <<>>

Quote == "\""

\* literals and the Values they denote
Literals ==
  {[text |-> <<"1">>, value |-> Number(Rat(1, 1))],
   [text |-> <<"2">>, value |-> Number(Rat(2, 1))],
   [text |-> <<Quote, "f", "o", "o", Quote>>, value |-> Str(<<"f", "o", "o">>)],
   [text |-> <<Quote, "b", "a", "r", Quote>>, value |-> Str(<<"b", "a", "r">>)],
   [text |-> <<"n", "i", "l">>, value |-> Nil],
   [text |-> <<"t", "r", "u", "e">>, value |-> Bool(TRUE)],
   [text |-> <<"f", "a", "l", "s", "e">>, value |-> Bool(FALSE)]}

OperandOperators == {"+", "-", "*", "/", ">", "<"}

\* print X o Y;
OperandSource(x, o, y) == PrintStatement(x.text \o <<" ", o, " ">> \o y.text)

OperandSources ==
  {OperandSource(x, o, y) : x \in Literals, o \in OperandOperators, y \in Literals}

\* print X == Y;
EqualitySource(x, y) ==
  PrintStatement(x.text \o <<" ", "=", "=", " ">> \o y.text)

EqualitySources == {EqualitySource(x, y) : x \in Literals, y \in Literals}

InitOperands == StartsOn(OperandSources \cup EqualitySources)

SpecOperands == InitOperands /\ [][NextExpr]_vars

\* what `print X o Y;` is to print, <<>> when the operands are not accepted
Expected(x, o, y) ==
  IF x.value.t = "Number" /\ y.value.t = "Number"
  THEN CASE o = ">" -> <<Display(Bool(NumGreater(x.value.v, y.value.v)))>>
         [] o = "<" -> <<Display(Bool(NumLess(x.value.v, y.value.v)))>>
         [] OTHER -> <<FmtNumber(Apply(o, x.value.v, y.value.v))>>
  ELSE IF x.value.t = "Str" /\ y.value.t = "Str" /\ o = "+"
  THEN <<x.value.v \o y.value.v>>
  ELSE <<>>

\* C11: `print X + Y;` prints the sum of two numbers and the concatenation,
\* left operand first, of two strings; for every other pair of operands, and
\* for - * / > < with an operand that is not a number, interpret returns
\* RuntimeError and prints nothing; - * / > < on two numbers print the
\* result.  "foo" + "bar" prints foobar, 1 + 2 prints 3.
C11_AddAndBinaryOperandTypes ==
  /\ pc # "panic"
  /\ pc = "idle"
       => \A x \in Literals, o \in OperandOperators, y \in Literals :
            source = OperandSource(x, o, y)
              => /\ out = Expected(x, o, y)
                 /\ returned = IF Expected(x, o, y) = <<>>
                               THEN <<"RuntimeError">> ELSE <<"Ok">>
  /\ (pc = "idle" /\ source = PrintStatement(
        <<Quote, "f", "o", "o", Quote, " ", "+", " ", Quote, "b", "a", "r", Quote>>))
       => out = << <<"f", "o", "o", "b", "a", "r">> >>
  /\ (pc = "idle" /\ source = PrintStatement(<<"1", " ", "+", " ", "2">>))
       => out = << <<"3">> >>
  /\ (pc = "idle" /\ source = PrintStatement(<<"2", " ", "-", " ", "1">>))
       => out = << <<"1">> >>

\* "foo" + 1 was run and refused
C11_Witness ==
  /\ pc = "idle"
  /\ source = PrintStatement(<<Quote, "f", "o", "o", Quote, " ", "+", " ", "1">>)
  /\ returned = <<"RuntimeError">>
  /\ err # <<>>
  /\ err[1].msg = <<"Operands to + must be two numbers or two strings.">>

---------------------------------------------------------------------------
(* The tests of rle.rs: values pushed one by one into a new                *)
(* RunLengthEncoded, then read back by position.                           *)

\* how many values a test pushes
MaxPushes == 5

\* the values pushed are 1..MaxValue
MaxValue == 3

\* `for item in &test_array { rle.push(*item) }`, one turn
RlePush ==
  /\ Len(pushed) < MaxPushes
  /\ \E item \in 1..MaxValue :
       /\ rle' = rle_push(rle, item)
       /\ pushed' = Append(pushed, item)
  /\ UNCHANGED <<vm, c, pc, source, returned, out, err, entry_depth>>

SpecRle == Init /\ [][RlePush]_vars

\* C12: after any pushes, get(i) and rle[i] give the value of the i-th push
\* for every i below the number of pushes, and get gives None (the index
\* panics) at the number of pushes.
C12_RleDecodesEveryPush ==
  /\ \A i \in 0..(Len(pushed) - 1) :
       /\ rle_get(rle, i) = [some |-> TRUE, val |-> pushed[i + 1]]
       /\ rle_index(rle, i) = [panic |-> FALSE, val |-> pushed[i + 1]]
  /\ ~rle_get(rle, Len(pushed)).some
  /\ rle_index(rle, Len(pushed)).panic

\* a run of three, a change, and a return to the first value were pushed
C12_Witness ==
  /\ pushed = <<1, 1, 1, 2, 1>>
  /\ rle_get(rle, 2).val = 1
  /\ rle_get(rle, 3).val = 2
  /\ rle_get(rle, 4).val = 1

---------------------------------------------------------------------------
(* Programs with faults: each call compiles (and, when it can, runs) a     *)
(* program of a few statements on a new Vm; some statements are faulty.    *)

\* statements in a program
MaxStatements == 3

\* print 1;
StmtGood ==
  <<"p", "r", "i", "n", "t", " ", "1", ";">>

\* print ;      (no expression)
StmtNoExpression ==
  <<"p", "r", "i", "n", "t", " ", ";">>

\* print @;     (a character the scanner does not know)
StmtBadCharacter ==
  <<"p", "r", "i", "n", "t", " ", "@", ";">>

\* print 1 2;   (no semicolon where one is expected)
StmtNoSemicolon ==
  <<"p", "r", "i", "n", "t", " ", "1", " ", "2", ";">>

\* print "a;    (a string that never closes: it runs to the end of the text)
StmtUnterminated ==
  <<"p", "r", "i", "n", "t", " ", Quote, "a", ";">>

\* print 1 2 @; (no semicolon where one is expected, and a character the
\*              scanner does not know among the tokens skipped after it)
StmtTwoFaults ==
  <<"p", "r", "i", "n", "t", " ", "1", " ", "2", " ", "@", ";">>

FaultyStatements ==
  {StmtNoExpression, StmtBadCharacter, StmtNoSemicolon, StmtUnterminated,
   StmtTwoFaults}

Statements == {StmtGood} \cup FaultyStatements

\* the programs of 1..MaxStatements statements, as sequences of statements;
\* the string that never closes can only be in the last one
Programs ==
  {prog \in UNION {[1..n -> Statements] : n \in 1..MaxStatements} :
     \A i \in 1..(Len(prog) - 1) : prog[i] # StmtUnterminated}

\* the statements of a program, one on each line: statement i is line i
RECURSIVE ProgramText(_)
ProgramText(prog) ==
  IF Len(prog) = 1 THEN prog[1]
  ELSE prog[1] \o <<"\n">> \o ProgramText(Tail(prog))

FaultySources == {ProgramText(prog) : prog \in Programs}

InitFaulty == StartsOn(FaultySources)

SpecFaulty == InitFaulty /\ [][NextExpr]_vars

\* how many statements of the program are faulty
Faults(prog) == Cardinality({i \in DOMAIN prog : prog[i] \in FaultyStatements})

\* C13: the error flag is set exactly when a report was made, a step of the
\* compilation never clears it (resynchronization included), compile fails
\* exactly when it is set at the end, and so interpret returns CompileError
\* exactly for the programs with a faulty statement, the faulty statement
\* followed by sound ones or not.
C13_CompileFailsIffErrorReported ==
  /\ [](pc # "panic")
  /\ [](pc = "compile" => (c.had_error <=> c.diag # <<>>))
  /\ [][(pc = "compile" /\ c.had_error /\ pc' = "compile") => c'.had_error]_vars
  /\ [][(pc = "compile" /\ pc' # "compile")
          => IF c.had_error
             THEN pc' = "idle" /\ returned' = <<"CompileError">>
             ELSE pc' = "run"]_vars
  /\ [](pc = "idle"
          => \A prog \in Programs :
               source = ProgramText(prog)
                 => (returned = <<"CompileError">> <=> Faults(prog) > 0))

\* `print ; print 1;`: the fault is reported, the parser has resynchronized
\* and compiled the second statement, and the flag is still set
C13_Witness ==
  /\ source = ProgramText(<<StmtNoExpression, StmtGood>>)
  /\ pc = "compile"
  /\ check(c, "Eof")
  /\ c.had_error
  /\ ~c.panic_mode
  /\ Len(c.diag) = 1

---------------------------------------------------------------------------
(* More properties of sessions *)

\* C14: from the entry of a call to its return with CompileError no step
\* changes the Vm (globals, stack, the chunk loaded before and ip), and the
\* call has executed nothing: it printed nothing and raised no runtime error.
C14_CompileErrorLeavesVm ==
  /\ [][(pc = "idle" \/ (pc = "compile" /\ pc' # "run")) => vm' = vm]_vars
  /\ [][(pc = "compile" /\ pc' = "idle")
          => returned' = Append(returned, "CompileError")]_vars
  /\ [](Returned("CompileError") => (out = <<>> /\ err = <<>>))

\* a call failed to compile on a Vm that held a global, a value on the stack
\* and the chunk of the call before
C14_Witness ==
  /\ Returned("CompileError")
  /\ DOMAIN vm.globals # {}
  /\ vm.stack # <<>>
  /\ vm.chunk.code # <<>>
  /\ vm.ip > 0

---------------------------------------------------------------------------
(* The scanner alone: calls of scan_token on one Scanner *)

MaxSourceLen == 3

ScanAlphabet == {"/", "1", ".", Quote, "a", " ", "@"}

ScanSources == UNION {[1..n -> ScanAlphabet] : n \in 0..MaxSourceLen}

\* Scanner::init(source) inside Compiler::compile, before the first call
InitScan ==
  /\ vm = VmInit
  /\ source \in ScanSources
  /\ c = CompilerInit(source)
  /\ pc = "scan"
  /\ returned = <<>>
  /\ out = <<>>
  /\ err = <<>>
  /\ entry_depth = 0
  /\ rle = RleNew
  /\ pushed = <<>>

\* self.current = self.scanner.scan_token(); a call that panics ends the process
ScanStep ==
  /\ pc = "scan"
  /\ LET r == scan_token(c.scanner) IN
       IF r.tok.kind = "Panic"
       THEN pc' = "panic" /\ UNCHANGED c
       ELSE c' = [c EXCEPT !.scanner = r.s, !.current = r.tok] /\ UNCHANGED pc
  /\ UNCHANGED <<vm, source, returned, out, err, entry_depth>>
  /\ NoTest

SpecScan == InitScan /\ [][ScanStep]_vars

ScanMessages == {<<"Unexpected character.">>, <<"Unterminated string.">>}

\* C15: no call of scan_token panics, whatever the text and however many calls
\* were made before; every call leaves a token, and an Error token carries one
\* of the scanner's messages as its lexeme.
C15_ScanTokenNeverAborts ==
  /\ pc # "panic"
  /\ (c.current # DefaultToken /\ c.current.kind = "Error")
       => c.current.src \in ScanMessages

---------------------------------------------------------------------------
(* Programs over several lines whose last statement fails at run time *)

MaxLeadingLines == 2

\* expressions whose evaluation is a runtime error
FailingExprs ==
  {<<"-", "n", "i", "l">>,
   <<"b">>,
   <<"1", " ", "+", " ", "n", "i", "l">>,
   <<"n", "i", "l", " ", "<", " ", "1">>,
   <<"1", " ", "+", " ", "b">>}

RECURSIVE LeadingLines(_)
\* n lines `print 1;`
LeadingLines(n) ==
  IF n = 0 THEN <<>>
  ELSE LeadingLines(n - 1) \o <<"p", "r", "i", "n", "t", " ", "1", ";", "\n">>

\* the layouts: n lines before the failing print statement, its `;` after the
\* separator sep, the statement under `if (true)` or not
LineShapes ==
  [n : 0..MaxLeadingLines, e : FailingExprs, sep : {" ", "\n"}, cond : BOOLEAN]

LineSource(p) ==
  LeadingLines(p.n)
    \o (IF p.cond THEN <<"i", "f", " ", "(", "t", "r", "u", "e", ")", " ">>
        ELSE <<>>)
    \o <<"p", "r", "i", "n", "t", " ">> \o p.e \o <<p.sep, ";">>

LineSources == {LineSource(p) : p \in LineShapes}

InitLines == StartsOn(LineSources)

SpecLines == InitLines /\ [][NextExpr]_vars

\* C16: the turn of run that fails at the instruction with index k (ip = k when
\* the turn starts) reports the line that chunk.lines holds for instruction k.
C16_ErrorLineOfFailingInstruction ==
  [][(pc = "run" /\ pc' = "idle" /\ err' # <<>>)
       => err'[1].line = rle_get(vm.chunk.lines, vm.ip).val]_vars

---------------------------------------------------------------------------
(* Lexical faults in programs *)

\* the Error tokens scan_token returns for the text from s on, in order
RECURSIVE ErrorTokensFrom(_)
ErrorTokensFrom(s) ==
  LET rest(r) ==
        IF r.tok.kind \in {"Eof", "Panic"} THEN <<>>
        ELSE IF r.tok.kind = "Error" THEN <<r.tok>> \o ErrorTokensFrom(r.s)
        ELSE ErrorTokensFrom(r.s)
  IN rest(scan_token(s))

ErrorTokens(text) == ErrorTokensFrom(ScannerInit(text))

\* the reports made for Error tokens: they alone name no lexeme
RECURSIVE LexicalReports(_)
LexicalReports(diag) ==
  IF diag = <<>> THEN <<>>
  ELSE (IF diag[1].at = <<>> THEN <<diag[1]>> ELSE <<>>)
         \o LexicalReports(Tail(diag))

\* the report error_at makes for an Error token
ReportOf(tok) == [line |-> tok.line, at |-> <<>>, msg |-> tok.src]

\* the programs in which no token is scanned while the parser is panicking
PlainSources ==
  {ProgramText(prog) : prog \in {p \in Programs :
                                  \A i \in DOMAIN p : p[i] # StmtTwoFaults}}

\* C17: advance never leaves an Error token as the current token: it reports
\* it and scans on, so that at the end of the text the error flag is set when
\* the text has an Error token, and every Error token of the text has its
\* report, in order (in the programs where none is met while the parser is
\* panicking); a text with an Error token is never run (nothing is loaded or
\* printed) and its call returns CompileError.
C17_ErrorTokenFailsCompilation ==
  /\ pc = "compile" => c.current.kind # "Error"
  /\ (pc = "compile" /\ check(c, "Eof") /\ ErrorTokens(source) # <<>>)
       => (c.had_error /\ LexicalReports(c.diag) # <<>>)
  /\ (pc = "compile" /\ check(c, "Eof") /\ source \in PlainSources)
       => LexicalReports(c.diag)
            = [i \in 1..Len(ErrorTokens(source)) |-> ReportOf(ErrorTokens(source)[i])]
  /\ ErrorTokens(source) # <<>>
       => /\ pc \in {"compile", "idle"}
          /\ vm = VmInit
          /\ out = <<>>
          /\ pc = "idle" => returned = <<"CompileError">>

\* `print @; print 1; print "a;` has been scanned to its end: both Error
\* tokens were reported and the statement between them was compiled
C17_Witness ==
  /\ source = ProgramText(<<StmtBadCharacter, StmtGood, StmtUnterminated>>)
  /\ pc = "compile"
  /\ check(c, "Eof")
  /\ c.diag = <<[line |-> 1, at |-> <<>>, msg |-> <<"Unexpected character.">>],
                [line |-> 3, at |-> <<>>, msg |-> <<"Unterminated string.">>]>>
  /\ c.chunk.code # <<>>

---------------------------------------------------------------------------
(* Equality of values *)

\* C18: the turn of run at an Op::Equal never fails: it takes two values off
\* the stack and leaves a Bool, true only for two values of one variant;
\* `print X == Y;` prints true when X and Y are the same literal and false
\* otherwise, false in particular for every pair of two variants (1 and "foo",
\* nil and false), and returns Ok.
C18_EqualSameVariantOnly ==
  /\ [][AtInstruction("Equal")
          => /\ pc' = "run"
             /\ err' = <<>>
             /\ Len(vm'.stack) = Len(vm.stack) - 1
             /\ vm'.stack[Len(vm'.stack)].t = "Bool"
             /\ vm'.stack[Len(vm'.stack)].v
                  => vm.stack[Len(vm.stack)].t = vm.stack[Len(vm.stack) - 1].t]_vars
  /\ [](\A x \in Literals, y \in Literals :
          (pc = "idle" /\ source = EqualitySource(x, y))
            => /\ returned = <<"Ok">>
               /\ err = <<>>
               /\ out = <<Display(Bool(x.text = y.text))>>
               /\ x.value.t # y.value.t => out = << <<"f", "a", "l", "s", "e">> >>)

\* `print nil == false;` has printed false
C18_Witness ==
  /\ pc = "idle"
  /\ source = PrintStatement(<<"n", "i", "l", " ", "=", "=", " ",
                               "f", "a", "l", "s", "e">>)
  /\ returned = <<"Ok">>
  /\ out = << <<"f", "a", "l", "s", "e">> >>

---------------------------------------------------------------------------
(* Locals and stack slots *)

\* C19: in every call of a session, a GetLocal(i) or SetLocal(i) about to run
\* addresses a slot that exists and that this call has filled (the local's
\* initializer ran in this call, above whatever the call found on the stack);
\* in the examples, whose local of index i is initialized with i + 1, the
\* GetLocal(i) reads that value.
C19_LocalIndexIsStackSlot ==
  /\ (AtInstruction("GetLocal") \/ AtInstruction("SetLocal"))
       => (entry_depth <= NextArg /\ NextArg < Len(vm.stack))
  /\ (AtInstruction("GetLocal") /\ source \in {SrcShadow, SrcTwoLocals})
       => /\ NextArg < Len(vm.stack)
          /\ vm.stack[NextArg + 1].t = "Number"
          /\ vm.stack[NextArg + 1] = Number(Rat(NextArg + 1, 1))

---------------------------------------------------------------------------
(* Panic mode *)

\* the lines of the faulty statements of a program
FaultyLines(prog) == {i \in DOMAIN prog : prog[i] \in FaultyStatements}

\* the lines named by the reports
ReportedLines(diag) == {diag[i].line : i \in DOMAIN diag}

\* C20: a compiler that is panicking is left as it is by error_at; and when
\* the text of a program has been compiled to its end, every faulty statement
\* of it (statement i is line i, the `;` that ends each is a synchronization
\* point) has a report of its own, exactly one when the statement has one fault.
C20_OneReportForEachFaultyStatement ==
  /\ (pc = "compile" /\ c.panic_mode)
       => error_at_current(c, <<"Expect expression.">>) = c
  /\ \A prog \in Programs :
       (pc = "compile" /\ check(c, "Eof") /\ source = ProgramText(prog))
         => /\ FaultyLines(prog) \subseteq ReportedLines(c.diag)
            /\ source \in PlainSources => Len(c.diag) = Faults(prog)

---------------------------------------------------------------------------
(* Resynchronization *)

\* the parser is at a statement boundary
AtBoundary(comp) ==
  \/ comp.current.kind = "Eof"
  \/ comp.previous.kind = "Semicolon"
  \/ comp.current.kind \in SyncKinds

\* a declaration that made a report ended in synchronize: the report set
\* panic_mode, and declaration calls synchronize when it finds the flag set
Resynchronized == pc = "compile" /\ pc' = "compile" /\ c'.diag # c.diag

\* C21: when synchronize has returned, panic_mode is false and the parser is at
\* a statement boundary, the first one after the fault: in a program of one
\* statement to the line it is at the end of the text or at the `print` that
\* opens the next line, no later statement having been skipped.
C21_SynchronizeStopsAtBoundary ==
  [][Resynchronized
       => /\ ~c'.panic_mode
          /\ AtBoundary(c')
          /\ \/ c'.current.kind = "Eof"
             \/ /\ c'.current.kind = "Print"
                /\ c'.current.line = c.current.line + 1]_vars

---------------------------------------------------------------------------
(* Assignment to globals *)

\* C22: a turn that executes SetGlobal for a name the table holds replaces the
\* name's value by the top of the stack and leaves the stack as it is; for a
\* name the table does not hold it ends the call with RuntimeError and
\* "Undefined variable", the table unchanged.  So `b = 2;` fails, and b, which
\* no call defines, is undefined in every later call of the session.
C22_SetGlobalNeedsExistingName ==
  /\ [][(AtInstruction("SetGlobal") /\ NameConstOk(vm, NextArg) /\ vm.stack # <<>>)
          => IF HasGlobal(vm, NameConst(vm, NextArg))
             THEN /\ pc' = "run"
                  /\ vm'.globals = [vm.globals EXCEPT ![NameConst(vm, NextArg)] =
                                      vm.stack[Len(vm.stack)]]
                  /\ vm'.stack = vm.stack
             ELSE /\ pc' = "idle"
                  /\ returned' = Append(returned, "RuntimeError")
                  /\ err'[1].msg = <<"Undefined variable ", NameConst(vm, NextArg)>>
                  /\ vm'.globals = vm.globals]_vars
  /\ [](~HasGlobal(vm, NameB))
  /\ []((pc = "idle" /\ source = SrcAssignB)
          => /\ LastReturned = "RuntimeError"
             /\ err[1].msg = <<"Undefined variable ", NameB>>)

\* `b = 2;` was refused in a session that had defined a
C22_Witness ==
  /\ Returned("RuntimeError")
  /\ source = SrcAssignB
  /\ err # <<>>
  /\ HasGlobal(vm, NameA)
  /\ ~HasGlobal(vm, NameB)

---------------------------------------------------------------------------
(* Blocks with locals: each call compiles and runs, on a new Vm, a text    *)
(*   [var a = 9;] { var N1 = 1; var N2 = 2; { var N3 = 3; print R1; } L }  *)
(* where L is `print R2;` or `R2 = 4;`.                                    *)

LocalNames == {"a", "b"}

\* the names read or assigned: c is never declared
AccessNames == LocalNames \cup {"c"}

LocalShapes ==
  [global : BOOLEAN, n1 : LocalNames, n2 : LocalNames, n3 : LocalNames,
   r1 : AccessNames, r2 : AccessNames, assign : BOOLEAN]

VarDecl(name, digit) ==
  <<"v", "a", "r", " ", name, " ", "=", " ", digit, ";">>

LocalSource(p) ==
  (IF p.global THEN VarDecl("a", "9") \o <<" ">> ELSE <<>>)
    \o <<"{", " ">> \o VarDecl(p.n1, "1") \o <<" ">> \o VarDecl(p.n2, "2")
    \o <<" ", "{", " ">> \o VarDecl(p.n3, "3")
    \o <<" ", "p", "r", "i", "n", "t", " ", p.r1, ";", " ", "}", " ">>
    \o (IF p.assign THEN <<p.r2, " ", "=", " ", "4", ";">>
        ELSE <<"p", "r", "i", "n", "t", " ", p.r2, ";">>)
    \o <<" ", "}">>

LocalSources == {LocalSource(p) : p \in LocalShapes}

InitLocals == StartsOn(LocalSources)

SpecLocals == InitLocals /\ [][NextExpr]_vars

\* the shape of the text of the call
Shape == CHOOSE p \in LocalShapes : source = LocalSource(p)

\* the whole text has been compiled
Compiled == pc = "compile" /\ check(c, "Eof")

\* C23: the second of two locals of one name at one depth of one block is
\* reported ("Already a variable with the name ... in this scope.") and the
\* compilation fails; a local of the name of a local of the enclosing block,
\* or of the name of a global, is accepted.
C23_DuplicateLocalRejected ==
  /\ Compiled
       => /\ c.had_error <=> Shape.n1 = Shape.n2
          /\ Shape.n1 = Shape.n2
               => c.diag = <<[line |-> 1, at |-> <<Shape.n2>>,
                              msg |-> <<"Already a variable with the name ",
                                        <<Shape.n2>>, " in this scope.">>]>>
  /\ pc = "idle" => (returned = <<"CompileError">> <=> Shape.n1 = Shape.n2)

\* `var a = 9; { var a = 1; var b = 2; { var a = 3; ...` compiled without a
\* report: a is a global, a local, and a local of the inner block
C23_Witness ==
  /\ Compiled
  /\ Shape.global /\ Shape.n1 = "a" /\ Shape.n2 = "b" /\ Shape.n3 = "a"
  /\ ~c.had_error

\* the variable accesses of a chunk in order: [op, local] for a local of index
\* `local`, [op, name, const] for a global whose name is constant `const`
RECURSIVE Accesses(_, _)
Accesses(chunk, k) ==
  IF k > Len(chunk.code) THEN <<>>
  ELSE (IF chunk.code[k].op \in {"GetLocal", "SetLocal"}
        THEN <<[op |-> chunk.code[k].op, local |-> chunk.code[k].arg]>>
        ELSE IF chunk.code[k].op \in {"GetGlobal", "SetGlobal"}
        THEN <<[op |-> chunk.code[k].op,
                name |-> chunk.constants[chunk.code[k].arg + 1],
                const |-> chunk.code[k].arg]>>
        ELSE <<>>)
       \o Accesses(chunk, k + 1)

\* where the name is to be found among the locals declared, the innermost last
Innermost(name, declared) ==
  LET found == {k \in DOMAIN declared : declared[k] = name}
  IN IF found = {} THEN 0 ELSE CHOOSE k \in found : \A j \in found : j <= k

\* the access the name is to compile to; `consts` constants precede it
Access(name, declared, assign, consts) ==
  IF Innermost(name, declared) > 0
  THEN [op |-> IF assign THEN "SetLocal" ELSE "GetLocal",
        local |-> Innermost(name, declared) - 1]
  ELSE [op |-> IF assign THEN "SetGlobal" ELSE "GetGlobal",
        name |-> Str(<<name>>),
        const |-> consts]

\* C24: a name is compiled to the local declared last among the locals in
\* scope that bear it (the inner a before the outer a), and, no local bearing
\* it, to the global of a constant appended for this access, which holds the
\* name.
C24_ResolveInnermostLocal ==
  Compiled
    => LET p == Shape
           before == (IF p.global THEN 2 ELSE 0) + 3
           first == Access(p.r1, <<p.n1, p.n2, p.n3>>, FALSE, before)
           between == IF Innermost(p.r1, <<p.n1, p.n2, p.n3>>) = 0 THEN 1 ELSE 0
           second == Access(p.r2, <<p.n1, p.n2>>, p.assign,
                            before + between)
       IN Accesses(c.chunk, 1) = <<first, second>>

\* `{ var a = 1; var b = 2; { var a = 3; print a; } print c; }` compiled: the
\* inner a is local 2, c is a global
C24_Witness ==
  /\ Compiled
  /\ ~Shape.global /\ Shape.n1 = "a" /\ Shape.n2 = "b" /\ Shape.n3 = "a"
  /\ Shape.r1 = "a" /\ Shape.r2 = "c" /\ ~Shape.assign
  /\ Accesses(c.chunk, 1)
       = <<[op |-> "GetLocal", local |-> 2],
           [op |-> "GetGlobal", name |-> Str(<<"c">>), const |-> 3]>>

---------------------------------------------------------------------------
(* The line table of a chunk *)

RECURSIVE RunsTotal(_)
\* the sum of the lengths of the runs
RunsTotal(inner) ==
  IF inner = <<>> THEN 0 ELSE inner[1].len + RunsTotal(Tail(inner))

\* the layout of the text of the call
LineShape == CHOOSE p \in LineShapes : source = LineSource(p)

\* the line of the token that was `previous` when instruction i was emitted:
\* two instructions for each leading line, then the condition and the failing
\* expression on the next line, then Print and Return after the `;`
ExpectedLine(p, chunk, i) ==
  IF i < 2 * p.n THEN (i \div 2) + 1
  ELSE IF i < Len(chunk.code) - 2 THEN p.n + 1
  ELSE IF p.sep = "\n" THEN p.n + 2 ELSE p.n + 1

\* the table holds one line for each instruction and none beyond
OneLineEach(chunk) ==
  /\ RunsTotal(chunk.lines) = Len(chunk.code)
  /\ \A i \in 0..(Len(chunk.code) - 1) : rle_get(chunk.lines, i).some
  /\ ~rle_get(chunk.lines, Len(chunk.code)).some

\* C25: the line table of the chunk being compiled, and of the chunk loaded,
\* holds exactly one line for each instruction, also once the jump of an `if`
\* has been patched; in the chunk of a whole text lines.get(i) is the line of
\* the token after which instruction i was added.
C25_OneLinePerInstruction ==
  /\ pc = "compile" => OneLineEach(c.chunk)
  /\ OneLineEach(vm.chunk)
  /\ pc \in {"run", "idle"}
       => \A i \in 0..(Len(vm.chunk.code) - 1) :
            rle_get(vm.chunk.lines, i).val = ExpectedLine(LineShape, vm.chunk, i)

\* a text of four lines with a patched jump was compiled and loaded
C25_Witness ==
  /\ pc = "run"
  /\ LineShape.n = 2 /\ LineShape.cond /\ LineShape.sep = "\n"
  /\ \E k \in DOMAIN vm.chunk.code :
       vm.chunk.code[k].op = "JumpIfFalse" /\ vm.chunk.code[k].arg # UsizeMax
  /\ Len(vm.chunk.lines) = 4
  /\ Len(vm.chunk.code) > Len(vm.chunk.lines)

---------------------------------------------------------------------------
(* The runs of a RunLengthEncoded *)

\* C26: after any pushes every run is at least 1 long and two runs next to
\* each other hold different values.
C26_RunsPositiveAndMerged ==
  \A k \in DOMAIN rle :
    /\ rle[k].len >= 1
    /\ k < Len(rle) => rle[k].data # rle[k + 1].data

\* two runs of two and a run of one
C26_Witness ==
  /\ pushed = <<1, 1, 2, 2, 1>>
  /\ rle = <<[len |-> 2, data |-> 1], [len |-> 2, data |-> 2],
             [len |-> 1, data |-> 1]>>

---------------------------------------------------------------------------
(* Programs with blocks and faults: the loops of the compiler *)

\* statements in a program
MaxNested == 2

NestedStatements ==
  {StmtGood,
   \* { print 1 2; print 1; }
   <<"{", " ", "p", "r", "i", "n", "t", " ", "1", " ", "2", ";", " ",
     "p", "r", "i", "n", "t", " ", "1", ";", " ", "}">>,
   \* { var a = 1; { print ; } print a; }
   <<"{", " ", "v", "a", "r", " ", "a", " ", "=", " ", "1", ";", " ", "{", " ",
     "p", "r", "i", "n", "t", " ", ";", " ", "}", " ",
     "p", "r", "i", "n", "t", " ", "a", ";", " ", "}">>,
   \* print 1 2 3;
   <<"p", "r", "i", "n", "t", " ", "1", " ", "2", " ", "3", ";">>,
   \* { print 1;      (the block is not closed)
   <<"{", " ", "p", "r", "i", "n", "t", " ", "1", ";">>,
   \* }               (no block is open)
   <<"}">>,
   \* if ( ;
   <<"i", "f", " ", "(", " ", ";">>}

NestedSources ==
  {ProgramText(prog) :
     prog \in UNION {[1..n -> NestedStatements] : n \in 1..MaxNested}}

InitNested == StartsOn(NestedSources)

SpecNested == InitNested /\ [][NextExpr]_vars

\* the call of a loop body took a token: the current token starts further on
Consumed(before, after) ==
  after.abort \/ after.scanner.start > before.scanner.start

\* every turn of the loop of synchronize, entered with the compiler x, takes a
\* token
RECURSIVE SynchronizeConsumes(_)
SynchronizeConsumes(x) ==
  IF x.current.kind # "Eof" /\ x.previous.kind # "Semicolon"
     /\ x.current.kind \notin SyncKinds
  THEN LET turned(x1) == Consumed(x, x1) /\ SynchronizeConsumes(x1)
       IN turned(self_advance(x))
  ELSE TRUE

\* declaration as far as its call of synchronize
DeclarationBody(x) ==
  IF check(x, "Var") THEN var_declaration(self_advance(x)) ELSE self_statement(x)

\* every turn of the loop of block, entered with the compiler b, takes a token,
\* as does every turn of the synchronize a declaration of the block ends in
RECURSIVE BlockConsumes(_)
BlockConsumes(b) ==
  IF ~check(b, "RightBrace") /\ ~check(b, "Eof")
  THEN LET turned(b1) == Consumed(b, b1) /\ BlockConsumes(b1)
           body(d) == d.panic_mode
                        => SynchronizeConsumes([d EXCEPT !.panic_mode = FALSE])
       IN /\ body(DeclarationBody(b))
          /\ check(b, "LeftBrace") => BlockConsumes(begin_scope(self_advance(b)))
          /\ turned(self_declaration(b))
  ELSE TRUE

\* C27: a turn of the loop of compile takes at least one token, so that the
\* current token starts further on in the text after it, and at Eof the loop
\* ends; so do the turns of the loop of a block the declaration opens and of
\* the synchronize it ends in, faults reported or suppressed; the text being
\* finite, the compilation ends.
C27_CompileLoopsConsume ==
  /\ [][(pc = "compile" /\ pc' = "compile") => Consumed(c, c')]_vars
  /\ [][(pc = "compile" /\ check(c, "Eof")) => pc' # "compile"]_vars
  /\ [](pc = "compile" => c.scanner.start <= Len(source))
  /\ []((pc = "compile" /\ check(c, "LeftBrace"))
          => BlockConsumes(begin_scope(self_advance(c))))
  /\ []((pc = "compile" /\ ~check(c, "Eof") /\ DeclarationBody(c).panic_mode)
          => SynchronizeConsumes([DeclarationBody(c) EXCEPT !.panic_mode = FALSE]))

\* `print 1 2 3; { print 1;` has been compiled to the end of the text: the
\* tokens after the first fault were skipped, the block ran into Eof
C27_Witness ==
  /\ source = ProgramText(<<
       <<"p", "r", "i", "n", "t", " ", "1", " ", "2", " ", "3", ";">>,
       <<"{", " ", "p", "r", "i", "n", "t", " ", "1", ";">> >>)
  /\ Compiled
  /\ Len(c.diag) = 2
  /\ c.scanner.start = Len(source)

---------------------------------------------------------------------------
(* The depth of the stack *)

\* how many values the arm of an instruction takes off or looks at with pop
\* and peek
Operands(name) ==
  CASE name \in {"Print", "Pop", "DefineGlobal", "SetGlobal", "Not", "Negate",
                 "JumpIfFalse"} -> 1
    [] name \in {"Equal", "Add", "Subtract", "Multiply", "Divide", "Greater",
                 "Less"} -> 2
    [] OTHER -> 0

\* C28: in every call of a session, the instruction about to run finds on the
\* stack the values its pop and peek calls need, and no turn of run ends in
\* the panic of an empty stack.
C28_NoStackUnderflow ==
  /\ []((pc = "run" /\ vm.ip < Len(vm.chunk.code))
          => Len(vm.stack) >= Operands(vm.chunk.code[vm.ip + 1].op))
  /\ [][(pc = "run" /\ pc' = "panic")
          => (AtInstruction("GetLocal") \/ AtInstruction("SetLocal"))]_vars

\* the Pop that closes the outer block of the shadowing example is about to
\* take the last value off the stack
C28_Witness ==
  /\ AtInstruction("Pop")
  /\ source = SrcShadow
  /\ Len(vm.stack) = 1
  /\ Len(returned) > 0

---------------------------------------------------------------------------
(* The Return that ends a chunk *)

\* the positions of the Return instructions of a chunk
Returns(chunk) == {k \in DOMAIN chunk.code : chunk.code[k].op = "Return"}

\* C29: the chunk a call loads has one Return, its last instruction; every
\* turn of run fetches an instruction that exists; and when a turn fails, the
\* line table has an entry at the ip the turn leaves, the one runtime_error
\* reads.
C29_OneReturnLast ==
  /\ [](vm.chunk.code # <<>> => Returns(vm.chunk) = {Len(vm.chunk.code)})
  /\ [](pc = "run" => vm.ip < Len(vm.chunk.code))
  /\ [][(pc = "run" /\ pc' = "idle" /\ err' # <<>>)
          => /\ vm'.ip = vm.ip + 1
             /\ rle_get(vm.chunk.lines, vm'.ip).some
             /\ err'[1].line = rle_get(vm.chunk.lines, vm'.ip).val]_vars

\* `print b;` failed at its first instruction and the line was found
C29_Witness ==
  /\ Returned("RuntimeError")
  /\ source = SrcPrintB
  /\ vm.ip = 1
  /\ Len(vm.chunk.code) = 3
  /\ err[1].line = 1

---------------------------------------------------------------------------
(* Writes into a RunLengthEncoded: `rle[i] = v`, with `test_array[i] = v`   *)
(* on the array kept beside it.                                            *)

RleWrite ==
  /\ \E i \in 0..(Len(pushed) - 1), v \in 1..MaxValue :
       /\ ~rle_index_mut(rle, i, v).panic
       /\ rle' = rle_index_mut(rle, i, v).inner
       /\ pushed' = [pushed EXCEPT ![i + 1] = v]
  /\ UNCHANGED <<vm, c, pc, source, returned, out, err, entry_depth>>

SpecRleWrite == Init /\ [][RlePush \/ RleWrite]_vars

\* C30: a write at position i (the one position where the array beside the
\* encoding changes) leaves get(j) as it was at every other position j and
\* leaves the decoded length as it was.
C30_WriteChangesOnePosition ==
  [][(Len(pushed') = Len(pushed) /\ pushed' # pushed)
       => /\ RunsTotal(rle') = RunsTotal(rle)
          /\ \A j \in 0..(Len(pushed) - 1) :
               pushed'[j + 1] = pushed[j + 1]
                 => rle_get(rle', j) = rle_get(rle, j)]_vars

---------------------------------------------------------------------------
(* Scopes and locals while blocks are compiled *)

\* every local is of a depth from 1 to the depth of the compiler, and no local
\* is of a lesser depth than the one below it
LocalsInScope(x) ==
  \A k \in DOMAIN x.locals :
    /\ 1 <= x.locals[k].depth
    /\ x.locals[k].depth <= x.scope_depth
    /\ k > 1 => x.locals[k - 1].depth <= x.locals[k].depth

\* the compiler at every turn of the loop of block, entered with b at the
\* depth `depth`, and where the loop ends and end_scope is called, is at that
\* depth with its locals in scope; so are the blocks opened inside it
RECURSIVE BlockBalanced(_, _)
BlockBalanced(b, depth) ==
  /\ ~b.abort
  /\ b.scope_depth = depth
  /\ depth >= 1
  /\ LocalsInScope(b)
  /\ IF ~check(b, "RightBrace") /\ ~check(b, "Eof")
     THEN /\ check(b, "LeftBrace")
               => BlockBalanced(begin_scope(self_advance(b)), depth + 1)
          /\ BlockBalanced(self_declaration(b), depth)
     ELSE TRUE

====
